---- MODULE Spec2Model ----
(***************************************************************************)
(* Catalog API (src/src/catalog_api): the lazy backfill scheduler, its     *)
(* worker tasks, the rate-limited Provider client and the store locks they *)
(* share with the request path.                                            *)
(*                                                                         *)
(* Time is the wall clock of time.time() in seconds; it advances in ticks  *)
(* of TickS seconds.  Rates are kept in units of 1/Unit requests per       *)
(* second, so that a fractional TMDB_RPS such as 0.5 is an integer.        *)
(***************************************************************************)
EXTENDS Integers, Sequences, FiniteSets, TLC

None == "None"
\* no status: the None of (None, None), and tmdb_get returning None
NoStatus == 0

\* ---- bounds of the model
TickS == 300
MaxTicks == 2
backfill_queue_limit == 2
backfill_workers == 1
MaxServed == 3
MaxFaults == 1
BucketHorizon == 1
MaxRate == 5
MaxComposed == 2
MaxFetched == 2
RlCap == 2
RlUnit == 6
MaxHits == 5
SqliteIntBits == 12
MaxListed == 3
RlHorizon == 7
MaxAcquires == 4
EnterHorizon == 2
MaxDelay == 1

\* ---- program constants
backfill_ttl_s == 600
similar_ttl_s == 259200
page_size == 48
home_ttl_s == 5400
trending_ttl_s == 5400

Requests == {"r1", "r2"}
Workers == {"w" \o ToString(i) : i \in 1..(IF backfill_workers > 1 THEN backfill_workers ELSE 1)}
Threads == Requests \cup Workers

VARIABLES
    clock,              \* time.time()
    backfill_recent,    \* App.backfill_recent: key -> stamp (0: .get(k) finds none)
    backfill_inflight,  \* App.backfill_inflight
    queue,              \* work queue of App.backfill_ex
    wk,                 \* the pool threads of App.backfill_ex, each in run()
    rq,                 \* the request handler threads
    store,              \* committed rows of the sqlite database
    db_writer,          \* the connection holding sqlite's write lock
    tmdb_tls,           \* App.tmdb_tls.bg per thread
    env,                \* os.environ: TMDB_API_KEY, TMDB_RPS, TMDB_RPS_FOREGROUND
    tmdb_fg_limiter,    \* App.tmdb_fg_limiter (a _TokenBucket)
    tmdb_bg_limiter,    \* App.tmdb_bg_limiter (a _TokenBucket, or None)
    served,             \* number of requests the handlers have begun
    faults,             \* number of Provider failures and exceptions so far
    submitted,          \* history: stamps of the tasks submitted per key
    acq_log,            \* history: token acquisitions made in _tmdb_open
    acq,                \* each thread's position in _TokenBucket.acquire
    granted,            \* history: tokens granted per bucket and instant
    http,               \* one GET-JSON call: its attempts and its result
    title_cast,         \* committed title_cast rows of one title
    ct,                 \* the tasks that refresh the cast of that title
    cast_lock,          \* the connection holding sqlite's write lock
    cast_seen,          \* the cast rows app_title read last
    udb,                \* the rows of a store to which one task is applied
    uonce,              \* those rows after the task ran once
    utask,              \* the task: its arguments and the Provider's answers
    uapplied,           \* how many times the task has run
    lq,                 \* the lang parameter of a request's query string
    lh,                 \* its Accept-Language header
    lout,               \* what _pick_lang returned for them
    tr_rows,            \* the rows of title_translations
    tr_arg,             \* the arguments of one call of _translated
    tr_out,             \* what it returned, and the name and overview served
    home_cache,         \* App.home_cache[lang_tag] for one lang_tag
    list_cache,         \* App.similar_cache[k] and App.trending_cache[k] for one k each
    ch,                 \* the handler threads that read these caches
    sent,               \* the answer the step just taken returned, if it returned one
    composed,           \* history: how many home objects were composed
    fetched,            \* history: how many list requests reached the Provider
    rl,                 \* H._rl: ip -> (tokens, last), tokens in 1/TokenUnit
    rl_env,             \* os.environ: RATE_LIMIT_RPS, RATE_LIMIT_BURST
    rl_mono,            \* time.monotonic(), in 1/RlUnit s
    rl_resp,            \* the response the handler sent last
    rl_hist,            \* history: the last requests of one IP, their instants and verdicts
    rl_n,               \* history: how many requests were handled
    mutex,              \* the Lock objects of App, H and the two buckets: their holder
    lth,                \* the threads followed through their lock sections
    title_out,          \* the detail document each handler thread is composing or sent last
    fn_arg,             \* the arguments of one call of a function followed on its own
    fn_res              \* what that call returned

\* the state of the calls into the Provider client that are followed step by step
call_vars == <<acq, granted, http>>

\* the cast refresh of one title, followed statement by statement
cast_vars == <<title_cast, ct, cast_lock, cast_seen>>

\* the parts of the program that are followed on their own
\* one task run on a store, as a whole
upsert_vars == <<udb, uonce, utask, uapplied>>

\* one call of _pick_lang
locale_vars == <<lq, lh, lout>>

\* one call of _translated
translated_vars == <<tr_rows, tr_arg, tr_out>>

\* the home, similar and trending caches and their readers
cache_vars == <<home_cache, list_cache, ch, sent, composed, fetched>>

\* the per-IP rate limit of the HTTP handler
rl_vars == <<rl, rl_env, rl_mono, rl_resp, rl_hist, rl_n>>

\* one call of a function of the read path
fn_vars == <<fn_arg, fn_res>>

\* the tail of app_title
detail_vars == <<title_out>>

\* the mutexes and the threads that take them
lock_vars == <<mutex, lth>>

late_vars == <<rl_vars, fn_vars, detail_vars, lock_vars>>

part_vars == <<cast_vars, upsert_vars, locale_vars, translated_vars, cache_vars, late_vars>>

vars == <<clock, backfill_recent, backfill_inflight, queue, wk, rq, store,
          db_writer, tmdb_tls, env, call_vars, tmdb_fg_limiter, tmdb_bg_limiter,
          served, faults, submitted, acq_log, part_vars>>

\* the Provider answering other than "ok", or an exception, is one more fault
Fault(is_fault) ==
    IF is_fault THEN faults < MaxFaults /\ faults' = faults + 1 ELSE UNCHANGED faults

Min(a, b) == IF a < b THEN a ELSE b
Max(a, b) == IF a > b THEN a ELSE b

\* ------------------------------------------------------------------------
\* App.__init__: the two token buckets (app.py 70-76)
\* ------------------------------------------------------------------------

\* one request per second, in rate units
Unit == 7
\* TMDB_RPS default "47" and fg_default = 7.0, in requests per second
DefaultRps == 47
fg_default == 7

\* _TokenBucket.__init__: a full bucket stamped with the construction time
TokenBucket(rate, capacity, t) ==
    [rate |-> rate, capacity |-> capacity, tokens |-> capacity, t |-> t]

\* FgRate with a fault: the formula without the branch for a total rate <= 1
FgRate_NoSmallTotal(rps, fg_cfg) == Min(fg_cfg, rps - Unit)

\* fg = min(fg_cfg, self.tmdb_rps - 1) if self.tmdb_rps > 1 else self.tmdb_rps
FgRate(rps, fg_cfg) == IF rps > Unit THEN Min(fg_cfg, rps - Unit) ELSE rps

\* bg = max(0.0, self.tmdb_rps - fg)
BgRate(rps, fg_cfg) == Max(0, rps - FgRate(rps, fg_cfg))

\* capacity=max(1.0, rate)
BucketCapacity(rate) == Max(Unit, rate)

MakeFgLimiter(rps, fg_cfg, t) ==
    TokenBucket(FgRate(rps, fg_cfg), BucketCapacity(FgRate(rps, fg_cfg)), t)

\* tmdb_bg_limiter = None: no bucket (a bucket that is built has rate > 0)
NoBucket == [rate |-> 0, capacity |-> 0, tokens |-> 0, t |-> 0]

\* _TokenBucket(bg, capacity=max(1.0, bg)) if bg > 0 else None
MakeBgLimiter(rps, fg_cfg, t) ==
    IF BgRate(rps, fg_cfg) > 0
    THEN TokenBucket(BgRate(rps, fg_cfg), BucketCapacity(BgRate(rps, fg_cfg)), t)
    ELSE NoBucket

DefaultEnv ==
    [TMDB_API_KEY |-> TRUE, TMDB_RPS |-> DefaultRps * Unit,
     TMDB_RPS_FOREGROUND |-> fg_default * Unit]

\* ------------------------------------------------------------------------
\* The store: the rows of the sqlite database, by table and key
\* ------------------------------------------------------------------------

Ids == {1, 2}
MediaTypes == {"movie", "tv"}

Row(tbl, mt, tid, lang, region) ==
    [tbl |-> tbl, mt |-> mt, tid |-> tid, lang |-> lang, region |-> region]

BaseRow(mt, tid) == Row("base", mt, tid, "-", "-")
LogosRow(mt, tid) == Row("logos_json", mt, tid, "-", "-")
CastRow(mt, tid) == Row("title_cast", mt, tid, "-", "-")
VideoRow(mt, tid) == Row("title_videos", mt, tid, "-", "-")
SeasonRow(tid) == Row("tv_seasons", "tv", tid, "-", "-")
EpisodeRow(tid) == Row("tv_episodes", "tv", tid, "-", "-")
TranslationRow(mt, tid, lang, region) == Row("title_translations", mt, tid, lang, region)

\* the schema of section 3: every table and the logos_json column exist
has_logos_json == TRUE
has_translations == TRUE
has_videos == TRUE
has_cast == TRUE
has_seasons == TRUE
has_episodes == TRUE

\* the (lang, region) rows the Provider's /translations answer carries
TmdbTranslations == {<<"en", "US">>, <<"de", "DE">>}

\* _lang_tag (lang.py 30-31)
lang_tag_of(iso639, iso3166) ==
    IF iso3166 # None THEN iso639 \o "-" \o iso3166 ELSE iso639

\* _missing_parts returning None (a returned dict has at least one flag set)
NoMiss ==
    [lang_tag |-> None, need_base |-> FALSE, need_logos |-> FALSE,
     need_translations |-> FALSE, need_cast |-> FALSE, need_videos |-> FALSE,
     need_tv |-> FALSE]

\* the same with a fault: the cast rows looked for whether or not full is set
missing_parts_CastAlways(db, key_present, mt, tid, iso639, iso3166, full) ==
    IF ~key_present \/ mt \notin MediaTypes \/ tid <= 0 THEN NoMiss
    ELSE
    LET need_base == BaseRow(mt, tid) \notin db
        need_logos == has_logos_json /\ (need_base \/ LogosRow(mt, tid) \notin db)
        need_tr ==
            has_translations /\
            IF iso3166 # None
            THEN TranslationRow(mt, tid, iso639, iso3166) \notin db
            ELSE ~\E r \in db : /\ r.tbl = "title_translations"
                                /\ r.mt = mt /\ r.tid = tid /\ r.lang = iso639
        need_cast == has_cast /\ CastRow(mt, tid) \notin db
        need_vid == full /\ has_videos /\ VideoRow(mt, tid) \notin db
        need_tv == /\ full /\ mt = "tv"
                   /\ \/ has_seasons /\ SeasonRow(tid) \notin db
                      \/ has_episodes /\ EpisodeRow(tid) \notin db
    IN  IF ~(need_base \/ need_logos \/ need_tr \/ need_cast \/ need_vid \/ need_tv)
        THEN NoMiss
        ELSE [lang_tag |-> lang_tag_of(iso639, iso3166),
              need_base |-> need_base,
              need_logos |-> need_logos,
              need_translations |-> need_tr,
              need_cast |-> need_cast,
              need_videos |-> need_vid,
              need_tv |-> need_tv]

\* App._missing_parts (app.py 173-228) on the rows `db` a connection sees
missing_parts(db, key_present, mt, tid, iso639, iso3166, full) ==
    IF ~key_present \/ mt \notin MediaTypes \/ tid <= 0 THEN NoMiss
    ELSE
    LET need_base == BaseRow(mt, tid) \notin db
        need_logos == has_logos_json /\ (need_base \/ LogosRow(mt, tid) \notin db)
        need_tr ==
            has_translations /\
            IF iso3166 # None
            THEN TranslationRow(mt, tid, iso639, iso3166) \notin db
            ELSE ~\E r \in db : /\ r.tbl = "title_translations"
                                /\ r.mt = mt /\ r.tid = tid /\ r.lang = iso639
        need_cast == full /\ has_cast /\ CastRow(mt, tid) \notin db
        need_vid == full /\ has_videos /\ VideoRow(mt, tid) \notin db
        need_tv == /\ full /\ mt = "tv"
                   /\ \/ has_seasons /\ SeasonRow(tid) \notin db
                      \/ has_episodes /\ EpisodeRow(tid) \notin db
    IN  IF ~(need_base \/ need_logos \/ need_tr \/ need_cast \/ need_vid \/ need_tv)
        THEN NoMiss
        ELSE [lang_tag |-> lang_tag_of(iso639, iso3166),
              need_base |-> need_base,
              need_logos |-> need_logos,
              need_translations |-> need_tr,
              need_cast |-> need_cast,
              need_videos |-> need_vid,
              need_tv |-> need_tv]

\* ------------------------------------------------------------------------
\* Requests: what a handler passes to _missing_parts and _schedule_backfill
\* ------------------------------------------------------------------------

Inp(mt, tid, iso639, iso3166, full) ==
    [mt |-> mt, tid |-> tid, iso639 |-> iso639, iso3166 |-> iso3166, full |-> full]

NoInp == Inp(None, 0, None, None, FALSE)

\* the cards of trending and similar lists, enriched with full=False
CardInputs == {Inp("tv", 2, "de", "DE", FALSE)}

\* GET /v1/titles/{id}?lang=..
TitleRequests == {[tid |-> 2, iso639 |-> "en", iso3166 |-> None]}

LangTags == {"en", "de-DE"}

\* k = (media_type, tid, lang_tag, 1 if full else 0)
Key(inp) ==
    <<inp.mt, inp.tid, lang_tag_of(inp.iso639, inp.iso3166), IF inp.full THEN 1 ELSE 0>>

Keys == MediaTypes \X Ids \X LangTags \X {0, 1}

\* ------------------------------------------------------------------------
\* App._schedule_backfill (app.py 230-243, 278)
\* ------------------------------------------------------------------------

\* the same with a fault: the comparison with the TTL inverted
RecentFresh_Inverted(k, now) ==
    LET t0 == backfill_recent[k]
    IN  t0 # 0 /\ (now - t0) > backfill_ttl_s

\* t0 and (now - t0) < self.backfill_ttl_s
RecentFresh(k, now) ==
    LET t0 == backfill_recent[k]
    IN  t0 # 0 /\ (now - t0) < backfill_ttl_s

\* the same with a fault: the limit compared with > instead of >=
InflightFull_OffByOne == Cardinality(backfill_inflight) > backfill_queue_limit

\* len(self.backfill_inflight) >= self.backfill_queue_limit
InflightFull == Cardinality(backfill_inflight) >= backfill_queue_limit

\* the same with a fault: the membership test of the key left out
InflightDrop_NoMembership(k) == InflightFull

\* ... or k in self.backfill_inflight
InflightDrop(k) == InflightFull \/ k \in backfill_inflight

\* the same with a fault: the entry written only once the task is accepted
RecentRecorded_OnSubmit(k, now) ==
    IF InflightDrop(k) THEN backfill_recent ELSE [backfill_recent EXCEPT ![k] = now]

\* self.backfill_recent[k] = now, ahead of the test of inflight
RecentRecorded(k, now) == [backfill_recent EXCEPT ![k] = now]

\* the guard of line 231
ScheduleGuard(inp) == env.TMDB_API_KEY /\ inp.mt \in MediaTypes /\ inp.tid > 0

\* the body under backfill_lock and the submit that follows it; `now` was read
\* before the lock was taken
schedule_backfill(inp, now) ==
    LET k == Key(inp)
    IN  IF ~ScheduleGuard(inp) \/ RecentFresh(k, now)
        THEN UNCHANGED <<backfill_recent, backfill_inflight, queue, submitted>>
        ELSE /\ backfill_recent' = RecentRecorded(k, now)
             /\ IF InflightDrop(k)
                THEN UNCHANGED <<backfill_inflight, queue, submitted>>
                ELSE /\ backfill_inflight' = backfill_inflight \cup {k}
                     /\ queue' = Append(queue, inp)
                     /\ submitted' = [submitted EXCEPT ![k] = Append(@, now)]

IdleReq == [pc |-> "idle", inp |-> NoInp, now |-> 0]

\* a handler that found missing parts calls _schedule_backfill: now = time.time()
Stamped(inp) == [pc |-> "stamped", inp |-> inp, now |-> clock]

\* App._enrich_card (app.py 768-775): detector, then the scheduler's first lines
ReqEnrich(r, inp) ==
    /\ rq[r].pc = "idle"
    /\ served < MaxServed
    /\ served' = served + 1
    /\ missing_parts(store, env.TMDB_API_KEY, inp.mt, inp.tid, inp.iso639, inp.iso3166, FALSE) # NoMiss
    /\ ScheduleGuard(inp)
    /\ rq' = [rq EXCEPT ![r] = Stamped(inp)]
    /\ UNCHANGED <<clock, backfill_recent, backfill_inflight, queue, wk, store,
                   db_writer, tmdb_tls, env, part_vars, call_vars, tmdb_fg_limiter, tmdb_bg_limiter,
                   submitted, acq_log, faults>>

\* the kind app_title finds locally: movies is probed first, then series
LocalKind(tid) ==
    IF BaseRow("movie", tid) \in store THEN "movie"
    ELSE IF BaseRow("tv", tid) \in store THEN "tv" ELSE None

\* APIServer.app_title, local hit (server.py 627-630, 643-646)
ReqTitleLocal(r, t) ==
    LET mt == LocalKind(t.tid)
        inp == Inp(mt, t.tid, t.iso639, t.iso3166, TRUE)
    IN  /\ rq[r].pc = "idle"
        /\ served < MaxServed
        /\ served' = served + 1
        /\ mt # None
        /\ missing_parts(store, env.TMDB_API_KEY, mt, t.tid, t.iso639, t.iso3166, TRUE) # NoMiss
        /\ ScheduleGuard(inp)
        /\ rq' = [rq EXCEPT ![r] = Stamped(inp)]
        /\ UNCHANGED <<clock, backfill_recent, backfill_inflight, queue, wk, store,
                       db_writer, tmdb_tls, env, part_vars, call_vars, tmdb_fg_limiter, tmdb_bg_limiter,
                       submitted, acq_log, faults>>

\* _schedule_backfill from `with self.backfill_lock` to submit(run)
ReqSchedule(r) ==
    /\ rq[r].pc = "stamped"
    /\ schedule_backfill(rq[r].inp, rq[r].now)
    /\ rq' = [rq EXCEPT ![r] = IdleReq]
    /\ UNCHANGED <<clock, wk, store, db_writer, tmdb_tls, env, part_vars, call_vars, tmdb_fg_limiter,
                   tmdb_bg_limiter, acq_log, served, faults>>

\* ------------------------------------------------------------------------
\* App._tmdb_open (app.py 113-119): one acquire before the request is sent
\* ------------------------------------------------------------------------

\* the same with a fault: the thread's flag not consulted
UseBackground_NoFlag(bg_flag) == tmdb_bg_limiter # NoBucket

\* getattr(self.tmdb_tls, "bg", False) and self.tmdb_bg_limiter
UseBackground(bg_flag) == bg_flag /\ tmdb_bg_limiter # NoBucket

OpenBucket(bg_flag) == IF UseBackground(bg_flag) THEN "bg" ELSE "fg"

BucketOf(name) == IF name = "bg" THEN tmdb_bg_limiter ELSE tmdb_fg_limiter

\* _TokenBucket.acquire(1) returns at once, taking nothing, when rate <= 0
TokensTaken(bucket) == IF bucket.rate <= 0 THEN 0 ELSE 1

\* the acquisition a thread makes for one outbound request; `by` tells a pool
\* thread of backfill_ex from a thread of the request path
Acquisition(by, bg_flag) ==
    [by |-> by, bucket |-> OpenBucket(bg_flag),
     tokens |-> TokensTaken(BucketOf(OpenBucket(bg_flag)))]

\* if not self.tmdb_key: return None
tmdb_open(by, bg_flag) ==
    IF ~env.TMDB_API_KEY
    THEN UNCHANGED acq_log
    ELSE acq_log' = acq_log \cup {Acquisition(by, bg_flag)}

\* ------------------------------------------------------------------------
\* APIServer.app_title for an id unknown locally (server.py 659-665)
\* ------------------------------------------------------------------------

\* a lookup that does not ask for the key
FetchAnyGuard_NoKeyTest == TRUE

\* if not self.tmdb_key: return (None, None, None)
FetchAnyGuard == env.TMDB_API_KEY

\* App._tmdb_fetch_title_any: /movie/{id} and /tv/{id} on two fresh threads,
\* whose tmdb_tls.bg is unset
ReqTitleRemote(r, t) ==
    /\ rq[r].pc = "idle"
    /\ served < MaxServed
    /\ served' = served + 1
    /\ LocalKind(t.tid) = None
    /\ FetchAnyGuard
    /\ rq' = [rq EXCEPT ![r] = [pc |-> "fetch_any",
                                inp |-> Inp(None, t.tid, t.iso639, t.iso3166, TRUE),
                                now |-> 0]]
    /\ UNCHANGED <<clock, backfill_recent, backfill_inflight, queue, wk, store,
                   db_writer, tmdb_tls, env, part_vars, call_vars, tmdb_fg_limiter, tmdb_bg_limiter,
                   submitted, acq_log, faults>>

\* the two lookups answer: mt is the kind whose lookup returned 200 with a body,
\* None when neither did (app_title returns None: 404) or when
\* _tmdb_fetch_title_any raised (see tmdb_fetch_title_any): either way the
\* handler is done with the request
ReqTitleFetched(r, mt) ==
    /\ rq[r].pc = "fetch_any"
    /\ tmdb_open("request", FALSE)
    /\ rq' = [rq EXCEPT ![r] =
                IF mt = None THEN IdleReq
                ELSE [pc |-> "upsert", inp |-> [rq[r].inp EXCEPT !.mt = mt], now |-> 0]]
    /\ UNCHANGED <<clock, backfill_recent, backfill_inflight, queue, wk, store,
                   db_writer, tmdb_tls, env, part_vars, call_vars, tmdb_fg_limiter, tmdb_bg_limiter,
                   submitted, served, faults>>

\* self.app._upsert_tmdb_base(con, mt, tid, data); con.commit(); then the
\* detector and the scheduler's first lines.  The INSERT needs sqlite's write
\* lock: while another connection holds it the handler waits (busy_timeout).
ReqTitleUpsert(r) ==
    LET inp == rq[r].inp
        db == store \cup {BaseRow(inp.mt, inp.tid)}
    IN  /\ rq[r].pc = "upsert"
        /\ db_writer = None
        /\ store' = db
        /\ rq' = [rq EXCEPT ![r] =
                    IF missing_parts(db, env.TMDB_API_KEY, inp.mt, inp.tid,
                                     inp.iso639, inp.iso3166, TRUE) # NoMiss
                    THEN Stamped(inp) ELSE IdleReq]
        /\ UNCHANGED <<clock, backfill_recent, backfill_inflight, queue, wk,
                       db_writer, tmdb_tls, env, part_vars, call_vars, tmdb_fg_limiter, tmdb_bg_limiter,
                       submitted, acq_log, served, faults>>

\* the INSERT or the commit raises sqlite3.Error (busy_timeout expired while
\* another connection held the write lock, an I/O error): it leaves app_title
ReqTitleStoreError(r) ==
    /\ rq[r].pc = "upsert"
    /\ Fault(TRUE)
    /\ rq' = [rq EXCEPT ![r] = IdleReq]
    /\ UNCHANGED <<clock, backfill_recent, backfill_inflight, queue, wk, store,
                   db_writer, tmdb_tls, env, part_vars, call_vars, tmdb_fg_limiter, tmdb_bg_limiter,
                   submitted, acq_log, served>>

\* App._tmdb_trending / App._tmdb_similar: one request on the handler's thread
ReqForeground(r) ==
    /\ rq[r].pc = "idle"
    /\ served < MaxServed
    /\ served' = served + 1
    /\ tmdb_open("request", tmdb_tls[r])
    /\ UNCHANGED <<clock, backfill_recent, backfill_inflight, queue, wk, rq, store,
                   db_writer, tmdb_tls, env, part_vars, call_vars, tmdb_fg_limiter, tmdb_bg_limiter,
                   submitted, faults>>

\* ------------------------------------------------------------------------
\* The worker task: run() of App._schedule_backfill (app.py 245-276)
\* ------------------------------------------------------------------------

EmptyTx == [add |-> {}, del |-> {}]

\* err: the fetch step of this task at which the Provider failed, if any
IdleWorker == [pc |-> "idle", inp |-> NoInp, miss |-> NoMiss, tx |-> EmptyTx, err |-> None]

\* what the Provider answers to one GET: 200 with usable rows, 200 with a body
\* that carries none, or anything else (non-200, transport error, bad JSON)
Outcomes == {"ok", "empty", "fail"}

\* the rows the task's connection sees: the committed rows and its own writes
View(w) == (store \ wk[w].tx.del) \cup wk[w].tx.add

\* a pc at which the task is in _tmdb_get_json: waiting for its token or for
\* the Provider's answer
CallPcs == {"call_base", "call_season", "call_logos1", "call_logos2",
            "call_videos", "call_cast", "call_translations"}

\* the steps of run() in order, each taken only when its flag is set
AfterCast(miss) == IF miss.need_translations /\ has_translations THEN "call_translations" ELSE "commit"
AfterVideos(miss) == IF miss.need_cast /\ has_cast THEN "call_cast" ELSE AfterCast(miss)
AfterLogos(miss) == IF miss.need_videos /\ has_videos THEN "call_videos" ELSE AfterVideos(miss)
AfterBase(miss) == IF miss.need_logos /\ has_logos_json THEN "call_logos1" ELSE AfterLogos(miss)

\* miss.get("need_base") or (media_type == "tv" and miss.get("need_tv"))
NeedsBaseCall(inp, miss) == miss.need_base \/ (inp.mt = "tv" /\ miss.need_tv)

FirstStep(inp, miss) == IF NeedsBaseCall(inp, miss) THEN "call_base" ELSE AfterBase(miss)

\* a write statement on the task's connection: it takes sqlite's write lock,
\* which the connection keeps until it commits or closes
CanWrite(w) == db_writer \in {None, w}

Written(w, pc, add, del) ==
    /\ wk' = [wk EXCEPT ![w].pc = pc,
                        ![w].tx = [add |-> (@.add \ del) \cup add, del |-> @.del \cup del]]
    /\ db_writer' = w

Moved(w, pc) ==
    /\ wk' = [wk EXCEPT ![w].pc = pc]
    /\ UNCHANGED db_writer

\* the fetch of the current step brought nothing to upsert: st != 200 (a
\* Provider error, remembered in err) or a body without usable data
MovedAfter(w, pc, o) ==
    /\ wk' = [wk EXCEPT ![w].pc = pc,
                        ![w].err = IF o = "fail" THEN wk[w].pc ELSE @]
    /\ UNCHANGED db_writer

\* the same with a fault: run() goes on after a base fetch that brought nothing
BaseFailedNext_Continue(miss) == AfterBase(miss)

\* run(): if st != 200 or not data: return
BaseFailedNext(miss) == "finally"

\* the place of each step in run()
StepRank(pc) ==
    CASE pc = "idle" -> 0
      [] pc = "call_base" -> 1
      [] pc = "call_season" -> 2
      [] pc = "call_logos1" -> 3
      [] pc = "call_logos2" -> 4
      [] pc = "call_videos" -> 5
      [] pc = "call_cast" -> 6
      [] pc = "call_translations" -> 7
      [] pc = "commit" -> 8
      [] pc = "finally" -> 9

\* a pool thread takes the next task: self.tmdb_tls.bg = True; con = self._con().
\* Both lines stand before the try: when _con() raises, run() ends there.
\* Then miss = self._missing_parts(...); if not miss: return
WorkerStart(w, con_ok) ==
    LET inp == Head(queue)
        miss == missing_parts(store, env.TMDB_API_KEY, inp.mt, inp.tid,
                              inp.iso639, inp.iso3166, inp.full)
    IN  /\ wk[w].pc = "idle"
        /\ queue # <<>>
        /\ Fault(~con_ok)
        /\ queue' = Tail(queue)
        /\ tmdb_tls' = [tmdb_tls EXCEPT ![w] = TRUE]
        /\ wk' = [wk EXCEPT ![w] =
                    IF con_ok
                    THEN [pc |-> IF miss = NoMiss THEN "finally" ELSE FirstStep(inp, miss),
                          inp |-> inp, miss |-> miss, tx |-> EmptyTx, err |-> None]
                    ELSE IdleWorker]
        /\ UNCHANGED <<clock, backfill_recent, backfill_inflight, rq, store, db_writer,
                       env, part_vars, call_vars, tmdb_fg_limiter, tmdb_bg_limiter, submitted, acq_log, served>>

\* GET /{kind}/{id}; if st != 200 or not data: return; _upsert_tmdb_base; for a
\* series with need_tv the seasons are upserted and the first positive season
\* is fetched next (_upsert_tmdb_tv_seasons_episodes, app.py 522-573)
WorkerBase(w, o) ==
    LET inp == wk[w].inp
        miss == wk[w].miss
        tv == inp.mt = "tv" /\ miss.need_tv
    IN  /\ wk[w].pc = "call_base"
        /\ tmdb_open("worker", tmdb_tls[w])
        /\ Fault(o # "ok")
        /\ IF o # "ok"
           THEN MovedAfter(w, BaseFailedNext(miss), o)
           ELSE /\ CanWrite(w)
                /\ Written(w,
                           IF tv /\ has_episodes THEN "call_season" ELSE AfterBase(miss),
                           {BaseRow(inp.mt, inp.tid)} \cup
                             (IF tv /\ has_seasons THEN {SeasonRow(inp.tid)} ELSE {}),
                           {})
        /\ UNCHANGED <<clock, backfill_recent, backfill_inflight, queue, rq, store,
                       tmdb_tls, env, part_vars, call_vars, tmdb_fg_limiter, tmdb_bg_limiter, submitted, served>>

\* GET /tv/{id}/season/{sn}; if st_s != 200 or not sdata: return (to run())
WorkerSeason(w, o) ==
    /\ wk[w].pc = "call_season"
    /\ tmdb_open("worker", tmdb_tls[w])
    /\ Fault(o # "ok")
    /\ IF o # "ok"
       THEN MovedAfter(w, AfterBase(wk[w].miss), o)
       ELSE /\ CanWrite(w)
            /\ Written(w, AfterBase(wk[w].miss), {EpisodeRow(wk[w].inp.tid)}, {})
    /\ UNCHANGED <<clock, backfill_recent, backfill_inflight, queue, rq, store,
                   tmdb_tls, env, part_vars, call_vars, tmdb_fg_limiter, tmdb_bg_limiter, submitted, served>>

\* _upsert_tmdb_logos: GET /images filtered by language; by_lang is None unless
\* the answer carries a logo, and then the unfiltered GET follows
WorkerLogos1(w, o) ==
    /\ wk[w].pc = "call_logos1"
    /\ tmdb_open("worker", tmdb_tls[w])
    /\ Fault(o # "ok")
    /\ IF o # "ok"
       THEN MovedAfter(w, "call_logos2", o)
       ELSE /\ CanWrite(w)
            /\ Written(w, AfterLogos(wk[w].miss),
                       IF BaseRow(wk[w].inp.mt, wk[w].inp.tid) \in View(w)
                       THEN {LogosRow(wk[w].inp.mt, wk[w].inp.tid)} ELSE {}, {})
    /\ UNCHANGED <<clock, backfill_recent, backfill_inflight, queue, rq, store,
                   tmdb_tls, env, part_vars, call_vars, tmdb_fg_limiter, tmdb_bg_limiter, submitted, served>>

\* the unfiltered GET /images; if not by_lang: return (to run())
WorkerLogos2(w, o) ==
    /\ wk[w].pc = "call_logos2"
    /\ tmdb_open("worker", tmdb_tls[w])
    /\ Fault(o # "ok")
    /\ IF o # "ok"
       THEN MovedAfter(w, AfterLogos(wk[w].miss), o)
       ELSE /\ CanWrite(w)
            /\ Written(w, AfterLogos(wk[w].miss),
                       IF BaseRow(wk[w].inp.mt, wk[w].inp.tid) \in View(w)
                       THEN {LogosRow(wk[w].inp.mt, wk[w].inp.tid)} ELSE {}, {})
    /\ UNCHANGED <<clock, backfill_recent, backfill_inflight, queue, rq, store,
                   tmdb_tls, env, part_vars, call_vars, tmdb_fg_limiter, tmdb_bg_limiter, submitted, served>>

\* _upsert_tmdb_videos: the first item with a key is upserted
WorkerVideos(w, o) ==
    /\ wk[w].pc = "call_videos"
    /\ tmdb_open("worker", tmdb_tls[w])
    /\ Fault(o # "ok")
    /\ IF o # "ok"
       THEN MovedAfter(w, AfterVideos(wk[w].miss), o)
       ELSE /\ CanWrite(w)
            /\ Written(w, AfterVideos(wk[w].miss),
                       {VideoRow(wk[w].inp.mt, wk[w].inp.tid)}, {})
    /\ UNCHANGED <<clock, backfill_recent, backfill_inflight, queue, rq, store,
                   tmdb_tls, env, part_vars, call_vars, tmdb_fg_limiter, tmdb_bg_limiter, submitted, served>>

\* _upsert_tmdb_cast: on 200 with a body DELETE the title's cast rows, then
\* INSERT the first 24 entries that carry id and credit_id
WorkerCast(w, o) ==
    /\ wk[w].pc = "call_cast"
    /\ tmdb_open("worker", tmdb_tls[w])
    /\ Fault(o # "ok")
    /\ IF o = "fail"
       THEN MovedAfter(w, AfterCast(wk[w].miss), o)
       ELSE /\ CanWrite(w)
            /\ Written(w, AfterCast(wk[w].miss),
                       IF o = "ok" THEN {CastRow(wk[w].inp.mt, wk[w].inp.tid)} ELSE {},
                       {CastRow(wk[w].inp.mt, wk[w].inp.tid)})
    /\ UNCHANGED <<clock, backfill_recent, backfill_inflight, queue, rq, store,
                   tmdb_tls, env, part_vars, call_vars, tmdb_fg_limiter, tmdb_bg_limiter, submitted, served>>

\* _upsert_tmdb_translations: one row per (lang, region) of the answer
WorkerTranslations(w, o) ==
    /\ wk[w].pc = "call_translations"
    /\ tmdb_open("worker", tmdb_tls[w])
    /\ Fault(o # "ok")
    /\ IF o # "ok"
       THEN MovedAfter(w, "commit", o)
       ELSE /\ CanWrite(w)
            /\ Written(w, "commit",
                       {TranslationRow(wk[w].inp.mt, wk[w].inp.tid, t[1], t[2]) :
                            t \in TmdbTranslations}, {})
    /\ UNCHANGED <<clock, backfill_recent, backfill_inflight, queue, rq, store,
                   tmdb_tls, env, part_vars, call_vars, tmdb_fg_limiter, tmdb_bg_limiter, submitted, served>>

\* a store statement of the task raises sqlite3.Error (the write lock held by
\* another connection for longer than busy_timeout, an I/O error): the
\* exception leaves the try through its finally
WorkerStoreError(w) ==
    /\ wk[w].pc \in CallPcs \cup {"commit"}
    /\ Fault(TRUE)
    /\ Moved(w, "finally")
    /\ UNCHANGED <<clock, backfill_recent, backfill_inflight, queue, rq, store,
                   tmdb_tls, env, part_vars, call_vars, tmdb_fg_limiter, tmdb_bg_limiter, submitted, acq_log, served>>

\* the same with a fault: only the base row of the transaction is published
\* a commit after which only the rows of the task remain in movies and series
Committed_BaseReplaced(tx) == {x \in store \ tx.del : x.tbl # "base"} \cup tx.add

Committed_BaseOnly(tx) == (store \ tx.del) \cup {x \in tx.add : x.tbl = "base"}

\* the rows other connections read once the transaction tx is committed
Committed(tx) == (store \ tx.del) \cup tx.add

\* con.commit(): the task's writes become the committed rows, the lock is freed
WorkerCommit(w) ==
    /\ wk[w].pc = "commit"
    /\ store' = Committed(wk[w].tx)
    /\ db_writer' = IF db_writer = w THEN None ELSE db_writer
    /\ wk' = [wk EXCEPT ![w].pc = "finally", ![w].tx = EmptyTx]
    /\ UNCHANGED <<clock, backfill_recent, backfill_inflight, queue, rq, tmdb_tls,
                   env, part_vars, call_vars, tmdb_fg_limiter, tmdb_bg_limiter, submitted, acq_log, served, faults>>

\* finally: con.close() (rolls back what was not committed), bg = False,
\* and under backfill_lock the key is discarded
WorkerFinally(w) ==
    /\ wk[w].pc = "finally"
    /\ db_writer' = IF db_writer = w THEN None ELSE db_writer
    /\ tmdb_tls' = [tmdb_tls EXCEPT ![w] = FALSE]
    /\ backfill_inflight' = backfill_inflight \ {Key(wk[w].inp)}
    /\ wk' = [wk EXCEPT ![w] = IdleWorker]
    /\ UNCHANGED <<clock, backfill_recent, queue, rq, store, env, part_vars, call_vars, tmdb_fg_limiter,
                   tmdb_bg_limiter, submitted, acq_log, served, faults>>

\* ------------------------------------------------------------------------
\* The backfill system: requests, the scheduler, the pool and the clock
\* ------------------------------------------------------------------------

Tick ==
    /\ clock < TickS * (MaxTicks + 1)
    /\ clock' = clock + TickS
    /\ UNCHANGED <<backfill_recent, backfill_inflight, queue, wk, rq, store,
                   db_writer, tmdb_tls, env, part_vars, call_vars, tmdb_fg_limiter, tmdb_bg_limiter,
                   submitted, acq_log, served, faults>>

\* the store the ingestion jobs left: movie 1 with its base row only
InitStore == {BaseRow("movie", 1)}

\* no thread is inside _TokenBucket.acquire, no GET-JSON call is under way
IdleAcq == [pc |-> "idle", now |-> 0, wake |-> 0]

Buckets == {"fg", "bg"}

Instants == 0..BucketHorizon

NoResult == [raised |-> FALSE, st |-> NoStatus, data |-> None]

IdleHttp ==
    [fn |-> "none", phase |-> "idle", attempt |-> 0, seen |-> <<>>, slept |-> 0,
     result |-> NoResult]

CallsIdle ==
    /\ acq = [t \in Threads |-> IdleAcq]
    /\ granted = [b \in Buckets |-> [i \in Instants |-> 0]]
    /\ http = IdleHttp

\* pool threads that run a task with need_cast for the same title
CastTasks == {"t1", "t2"}

NoCredits == [ver |-> 0, n |-> 0, bad |-> FALSE, dup |-> FALSE]

IdleCastTask == [pc |-> "idle", resp |-> NoCredits, i |-> 0, del |-> FALSE, add |-> {}]

\* the title has no cast row yet and no task is running
CastIdle ==
    /\ title_cast = {}
    /\ ct = [t \in CastTasks |-> IdleCastTask]
    /\ cast_lock = None
    /\ cast_seen = {}

NoAnswers ==
    [base |-> [ok |-> FALSE, v |-> 0, seasons |-> <<>>],
     logos1 |-> None, logos2 |-> None,
     videos |-> [ok |-> FALSE, results |-> <<>>],
     credits |-> [ok |-> FALSE, cast |-> <<>>],
     translations |-> [ok |-> FALSE, translations |-> <<>>],
     season |-> [ok |-> FALSE, episodes |-> <<>>]]

NoTask == [inp |-> NoInp, rs |-> NoAnswers]

UpsertIdle ==
    /\ udb = {}
    /\ uonce = {}
    /\ utask = NoTask
    /\ uapplied = 0

\* a header that was not sent
NoHeader == [present |-> FALSE, val |-> <<>>]

\* (iso639, iso3166) as sequences of characters; region = FALSE: iso3166 is None
Locale(a, region, b) == [iso639 |-> a, region |-> region, iso3166 |-> b]

NoLocale == [done |-> FALSE, loc |-> Locale(<<>>, FALSE, <<>>)]

LocaleIdle ==
    /\ lq = <<>>
    /\ lh = NoHeader
    /\ lout = NoLocale

NoTranslated ==
    [done |-> FALSE, title |-> None, overview |-> None, name |-> "", description |-> ""]

TranslatedIdle ==
    /\ tr_rows = {}
    /\ tr_arg = [mt |-> None, tid |-> 0, iso639 |-> None, iso3166 |-> None]
    /\ tr_out = NoTranslated

CacheThreads == {"c1", "c2"}

ListCaches == {"similar", "trending"}

\* bytes that are not there (br when brotli is missing, a 2-tuple's bytes)
NoBytes == <<>>

\* home_cache.get(lang_tag) finding nothing; n is the length of the tuple
NoHomeEntry == [n |-> 0, ts |-> 0, obj |-> 0, raw |-> NoBytes, gz |-> NoBytes, br |-> NoBytes]

NoListEntry == [n |-> 0, ts |-> 0, out |-> 0]

NoReturn ==
    [op |-> "none", how |-> "none", obj |-> 0, raw |-> NoBytes, gz |-> NoBytes, br |-> NoBytes]

IdleCacheThread == [pc |-> "idle", op |-> "none", now |-> 0, obj |-> 0]

CacheIdle ==
    /\ home_cache = NoHomeEntry
    /\ list_cache = [c \in ListCaches |-> NoListEntry]
    /\ ch = [t \in CacheThreads |-> IdleCacheThread]
    /\ sent = NoReturn
    /\ composed = 0
    /\ fetched = 0

\* the addresses requests come from
Ips == 1..(RlCap + 1)

NoResponse == [ip |-> 0, method |-> "none", code |-> 0, retry_after |-> None]

\* H._rl = {} and the environment of the rate limit not yet chosen
RlIdle ==
    /\ rl = [ip \in Ips |-> [has |-> FALSE, tokens |-> 0, last |-> 0]]
    /\ rl_env = [RATE_LIMIT_RPS |-> 3, RATE_LIMIT_BURST |-> 3]
    /\ rl_mono = 0
    /\ rl_resp = NoResponse
    /\ rl_hist = <<>>
    /\ rl_n = 0

NoCall == [f |-> "none"]

FnIdle == fn_arg = NoCall /\ fn_res = NoCall

NoDetail == [sent |-> FALSE, kind |-> "none", prefetch_season |-> FALSE, prefetch_episodes |-> FALSE]

DetailIdle == title_out = [r \in Requests |-> NoDetail]

Mutexes ==
    {"fg.lock", "bg.lock", "tmdb_init_lock", "trending_lock", "similar_lock", "home_lock",
     "backfill_lock", "_rl_lock"}

LockThreads == {"t1", "t2"}

IdleLockThread == [prog |-> "none", pc |-> 0]

LocksIdle ==
    /\ mutex = [m \in Mutexes |-> None]
    /\ lth = [t \in LockThreads |-> IdleLockThread]

LateIdle == RlIdle /\ FnIdle /\ DetailIdle /\ LocksIdle

PartsIdle ==
    CastIdle /\ UpsertIdle /\ LocaleIdle /\ TranslatedIdle /\ CacheIdle /\ LateIdle

\* nothing requested, nothing scheduled
BackfillIdle ==
    /\ backfill_recent = [k \in Keys |-> 0]
    /\ backfill_inflight = {}
    /\ queue = <<>>
    /\ wk = [w \in Workers |-> IdleWorker]
    /\ rq = [r \in Requests |-> IdleReq]
    /\ store = InitStore
    /\ db_writer = None
    /\ served = 0
    /\ faults = 0
    /\ submitted = [k \in Keys |-> <<>>]
    /\ acq_log = {}

backfill_vars ==
    <<backfill_recent, backfill_inflight, queue, wk, rq, store, db_writer,
      served, faults, submitted, acq_log>>

\* the state after App.__init__ under the environment e
BaseInit(e) ==
    /\ clock = TickS
    /\ BackfillIdle
    /\ CallsIdle
    /\ tmdb_tls = [t \in Threads |-> FALSE]
    /\ env = e
    /\ tmdb_fg_limiter = MakeFgLimiter(e.TMDB_RPS, e.TMDB_RPS_FOREGROUND, TickS)
    /\ tmdb_bg_limiter = MakeBgLimiter(e.TMDB_RPS, e.TMDB_RPS_FOREGROUND, TickS)

InitWith(e) == BaseInit(e) /\ PartsIdle

Init == InitWith(DefaultEnv)

Next ==
    \/ Tick
    \/ \E r \in Requests :
        \/ \E inp \in CardInputs : ReqEnrich(r, inp)
        \/ \E t \in TitleRequests : ReqTitleLocal(r, t)
        \/ \E t \in TitleRequests : ReqTitleRemote(r, t)
        \/ \E mt \in MediaTypes \cup {None} : ReqTitleFetched(r, mt)
        \/ ReqTitleUpsert(r)
        \/ ReqTitleStoreError(r)
        \/ ReqForeground(r)
        \/ ReqSchedule(r)
    \/ \E w \in Workers :
        \/ \E ok \in BOOLEAN : WorkerStart(w, ok)
        \/ \E o \in Outcomes :
            \/ WorkerBase(w, o)
            \/ WorkerSeason(w, o)
            \/ WorkerLogos1(w, o)
            \/ WorkerLogos2(w, o)
            \/ WorkerVideos(w, o)
            \/ WorkerCast(w, o)
            \/ WorkerTranslations(w, o)
        \/ WorkerStoreError(w)
        \/ WorkerCommit(w)
        \/ WorkerFinally(w)

Spec == Init /\ [][Next]_vars

\* the same system under every configuration of the two rates: the defaults,
\* a total rate of 1 (no background bucket), a foreground rate of 0
Envs ==
    {[TMDB_API_KEY |-> TRUE, TMDB_RPS |-> rps, TMDB_RPS_FOREGROUND |-> fg] :
        rps \in {DefaultRps * Unit, Unit}, fg \in {fg_default * Unit, 0}}

InitEnv == \E e \in Envs : InitWith(e)

SpecEnv == InitEnv /\ [][Next]_vars

\* ------------------------------------------------------------------------
\* App.__init__ computing the two rates (app.py 70-76), for every configuration
\* ------------------------------------------------------------------------

\* float(os.environ.get(...)): any number, negative and fractional included
RateValues == (0 - Unit)..(MaxRate * Unit)

RateEnvs ==
    {[TMDB_API_KEY |-> TRUE, TMDB_RPS |-> rps, TMDB_RPS_FOREGROUND |-> fg] :
        rps \in RateValues \cup {DefaultRps * Unit},
        fg \in RateValues \cup {fg_default * Unit}}

\* the buckets are not built yet
InitRates ==
    /\ clock = TickS
    /\ BackfillIdle
    /\ PartsIdle
    /\ CallsIdle
    /\ tmdb_tls = [t \in Threads |-> FALSE]
    /\ env \in RateEnvs
    /\ tmdb_fg_limiter = NoBucket
    /\ tmdb_bg_limiter = NoBucket

\* self.tmdb_fg_limiter = ...; self.tmdb_bg_limiter = ...
BuildLimiters ==
    /\ tmdb_fg_limiter = NoBucket
    /\ tmdb_fg_limiter' = MakeFgLimiter(env.TMDB_RPS, env.TMDB_RPS_FOREGROUND, clock)
    /\ tmdb_bg_limiter' = MakeBgLimiter(env.TMDB_RPS, env.TMDB_RPS_FOREGROUND, clock)
    /\ UNCHANGED <<clock, backfill_vars, call_vars, tmdb_tls, env, part_vars>>

SpecRates == InitRates /\ [][BuildLimiters]_vars

\* ------------------------------------------------------------------------
\* _TokenBucket.acquire (app.py 22-37) step by step, under the default rates.
\* Here the clock counts instants of 1/Unit second from the construction of the
\* buckets; rates and tokens are in 1/Unit request, as everywhere.
\* ------------------------------------------------------------------------

\* Refilled with a fault: self.t = now forgotten
Refilled_NoStamp(b, now) ==
    IF now - b.t > 0
    THEN [b EXCEPT !.tokens = Min(b.capacity, b.tokens + ((now - b.t) * b.rate) \div Unit)]
    ELSE b

\* dt = now - self.t
\* if dt > 0: self.tokens = min(self.capacity, self.tokens + dt * self.rate); self.t = now
Refilled(b, now) ==
    IF now - b.t > 0
    THEN [b EXCEPT !.tokens = Min(b.capacity, b.tokens + ((now - b.t) * b.rate) \div Unit),
                   !.t = now]
    ELSE b

\* need = (n - self.tokens) / self.rate, in instants, rounded up: time.sleep
\* returns no earlier
SleepNeed(b) == ((Unit - b.tokens) * Unit + b.rate - 1) \div b.rate

SetBucket(name, b) ==
    IF name = "bg"
    THEN tmdb_bg_limiter' = b /\ UNCHANGED tmdb_fg_limiter
    ELSE tmdb_fg_limiter' = b /\ UNCHANGED tmdb_bg_limiter

\* acquire(1) is entered with a positive rate: now = time.time(), read before
\* the lock is taken
AcquireBegin(th) ==
    /\ acq[th].pc = "idle"
    /\ BucketOf(OpenBucket(tmdb_tls[th])).rate > 0
    /\ acq' = [acq EXCEPT ![th] = [pc |-> "locking", now |-> clock, wake |-> 0]]
    /\ UNCHANGED <<clock, backfill_vars, granted, http, tmdb_tls, env, part_vars,
                   tmdb_fg_limiter, tmdb_bg_limiter>>

\* with self.lock: refill, then take the token and return, or compute need
AcquireLocked(th) ==
    LET name == OpenBucket(tmdb_tls[th])
        b == Refilled(BucketOf(name), acq[th].now)
    IN  /\ acq[th].pc = "locking"
        /\ IF b.tokens >= Unit
           THEN /\ SetBucket(name, [b EXCEPT !.tokens = @ - Unit])
                /\ granted' = [granted EXCEPT ![name][clock] = @ + 1]
                /\ acq' = [acq EXCEPT ![th] = IdleAcq]
           ELSE /\ SetBucket(name, b)
                /\ UNCHANGED granted
                /\ acq' = [acq EXCEPT ![th] = [pc |-> "sleeping", now |-> acq[th].now,
                                               wake |-> clock + SleepNeed(b)]]
        /\ UNCHANGED <<clock, backfill_vars, http, tmdb_tls, env, part_vars>>

\* time.sleep(need) returns; the loop reads the time again
AcquireWake(th) ==
    /\ acq[th].pc = "sleeping"
    /\ clock >= acq[th].wake
    /\ acq' = [acq EXCEPT ![th] = [pc |-> "locking", now |-> clock, wake |-> 0]]
    /\ UNCHANGED <<clock, backfill_vars, granted, http, tmdb_tls, env, part_vars,
                   tmdb_fg_limiter, tmdb_bg_limiter>>

BucketTick ==
    /\ clock < BucketHorizon
    /\ clock' = clock + 1
    /\ UNCHANGED <<backfill_vars, call_vars, tmdb_tls, env, part_vars, tmdb_fg_limiter,
                   tmdb_bg_limiter>>

\* a thread that sends nothing to the Provider in this run
NoCaller == [pc |-> "none", now |-> 0, wake |-> 0]

\* the threads that send requests in one run: the handlers contending for the
\* foreground bucket, or one handler beside the pool
BucketCallers == {Requests, {"r1"} \cup Workers}

\* buckets just built at instant 0; the pool threads are inside run() (flag
\* set), the handler threads are not
InitBucket ==
    /\ clock = 0
    /\ BackfillIdle
    /\ PartsIdle
    /\ \E callers \in BucketCallers :
          acq = [t \in Threads |-> IF t \in callers THEN IdleAcq ELSE NoCaller]
    /\ granted = [b \in Buckets |-> [i \in Instants |-> 0]]
    /\ http = IdleHttp
    /\ tmdb_tls = [t \in Threads |-> t \in Workers]
    /\ env = DefaultEnv
    /\ tmdb_fg_limiter = MakeFgLimiter(env.TMDB_RPS, env.TMDB_RPS_FOREGROUND, 0)
    /\ tmdb_bg_limiter = MakeBgLimiter(env.TMDB_RPS, env.TMDB_RPS_FOREGROUND, 0)

NextBucket ==
    \/ BucketTick
    \/ \E th \in Threads :
        \/ AcquireBegin(th)
        \/ AcquireLocked(th)
        \/ AcquireWake(th)

SpecBucket == InitBucket /\ [][NextBucket]_vars

\* ------------------------------------------------------------------------
\* GET-JSON: App._tmdb_get_json (app.py 134-146), the client of the API, and
\* tmdb_get (sync_recent.py 59-81), the client of the sync job
\* ------------------------------------------------------------------------

\* for attempt in range(6)
MaxAttempts == 6

\* what one attempt meets: no answer (connection error, timeout) or an HTTP
\* answer with a status, a body and possibly a Retry-After header
\* (retry_after -1: no header, or one that is not a number)
NoAnswer(kind) == [kind |-> kind, status |-> NoStatus, body |-> None, retry_after |-> 0 - 1]

Answer(status, body, retry_after) ==
    [kind |-> "http", status |-> status, body |-> body, retry_after |-> retry_after]

Responses ==
    {NoAnswer("error"), NoAnswer("timeout"),
     Answer(200, "object", 0 - 1), Answer(200, "array", 0 - 1), Answer(200, "invalid", 0 - 1),
     Answer(204, "object", 0 - 1), Answer(404, "object", 0 - 1),
     Answer(429, "object", 0 - 1), Answer(429, "object", 3), Answer(500, "invalid", 0 - 1)}

\* self._tmdb_opener.open(req, ...) raises URLError or a timeout when there is
\* no answer and HTTPError for a status outside 200..299
OpenRaises(resp) == resp.kind # "http" \/ resp.status < 200 \/ resp.status > 299

Raised == [raised |-> TRUE, st |-> NoStatus, data |-> None]

Returned(st, data) == [raised |-> FALSE, st |-> st, data |-> data]

\* the body of the try: _tmdb_open, the status test, json.loads, isinstance
TryGetJson(key_present, resp) ==
    IF ~key_present THEN Returned(NoStatus, None)
    ELSE IF OpenRaises(resp) THEN Raised
    ELSE IF resp.status # 200 THEN Returned(resp.status, None)
    ELSE IF resp.body = "invalid" THEN Raised
    ELSE Returned(200, IF resp.body = "object" THEN "object" ELSE None)

\* CatchAll with a fault: the exception leaves the function
CatchAll_Reraise(r) == r

\* except Exception: return (None, None)
CatchAll(r) == IF r.raised THEN Returned(NoStatus, None) ELSE r

tmdb_get_json(key_present, resp) == CatchAll(TryGetJson(key_present, resp))

\* SyncRetries with a fault: a 5xx answer is returned at once
SyncRetries_Not5xx(resp) == resp.kind # "http" \/ resp.status = 429

\* tmdb_get: except requests.RequestException / status_code == 429 /
\* 500 <= status_code < 600, each followed by a sleep and `continue`
SyncRetries(resp) ==
    \/ resp.kind # "http"
    \/ resp.status = 429
    \/ (500 <= resp.status /\ resp.status < 600)

RECURSIVE Pow2(_)
Pow2(n) == IF n = 0 THEN 1 ELSE 2 * Pow2(n - 1)

\* the sleep before the next attempt, in half seconds: float(ra) for a numeric
\* Retry-After of a 429, else 1.0; 0.5 * (2**attempt) otherwise
SyncSleep(resp, attempt) ==
    IF resp.kind = "http" /\ resp.status = 429
    THEN IF resp.retry_after >= 0 THEN 2 * resp.retry_after ELSE 2
    ELSE Pow2(attempt)

\* a caller enters one of the two functions
GetJsonBegin(fn) ==
    /\ http.phase \in {"idle", "done"}
    /\ http' = [IdleHttp EXCEPT !.fn = fn, !.phase = "sending"]
    /\ UNCHANGED <<clock, backfill_vars, acq, granted, tmdb_tls, env, part_vars,
                   tmdb_fg_limiter, tmdb_bg_limiter>>

\* App._tmdb_get_json: one request (none without a key), then return
AppSend(resp) ==
    /\ http.fn = "app"
    /\ http.phase = "sending"
    /\ http' = [http EXCEPT
                  !.phase = "done",
                  !.attempt = IF env.TMDB_API_KEY THEN 1 ELSE 0,
                  !.seen = IF env.TMDB_API_KEY THEN <<resp>> ELSE <<>>,
                  !.result = tmdb_get_json(env.TMDB_API_KEY, resp)]
    /\ UNCHANGED <<clock, backfill_vars, acq, granted, tmdb_tls, env, part_vars,
                   tmdb_fg_limiter, tmdb_bg_limiter>>

\* tmdb_get: one pass of the loop body, session.get and the tests on its answer
SyncSend(resp) ==
    /\ http.fn = "sync"
    /\ http.phase = "sending"
    /\ http.attempt < MaxAttempts
    /\ http' = IF SyncRetries(resp)
               THEN [http EXCEPT !.phase = "sleeping",
                                 !.attempt = @ + 1,
                                 !.seen = Append(@, resp),
                                 !.slept = @ + SyncSleep(resp, http.attempt)]
               ELSE [http EXCEPT !.phase = "done",
                                 !.attempt = @ + 1,
                                 !.seen = Append(@, resp),
                                 !.result = Returned(resp.status, resp.body)]
    /\ UNCHANGED <<clock, backfill_vars, acq, granted, tmdb_tls, env, part_vars,
                   tmdb_fg_limiter, tmdb_bg_limiter>>

\* tmdb_get: the sleep is over; `continue`, and `return None` after the loop
SyncWake ==
    /\ http.fn = "sync"
    /\ http.phase = "sleeping"
    /\ http' = IF http.attempt < MaxAttempts
               THEN [http EXCEPT !.phase = "sending"]
               ELSE [http EXCEPT !.phase = "done", !.result = Returned(NoStatus, None)]
    /\ UNCHANGED <<clock, backfill_vars, acq, granted, tmdb_tls, env, part_vars,
                   tmdb_fg_limiter, tmdb_bg_limiter>>

\* the API with and without a Provider key
InitGetJson ==
    \E key \in BOOLEAN : InitWith([DefaultEnv EXCEPT !.TMDB_API_KEY = key])

NextGetJson ==
    \/ \E fn \in {"app", "sync"} : GetJsonBegin(fn)
    \/ \E resp \in Responses : AppSend(resp)
    \/ \E resp \in Responses : SyncSend(resp)
    \/ SyncWake

SpecGetJson == InitGetJson /\ [][NextGetJson]_vars

\* ------------------------------------------------------------------------
\* App._upsert_tmdb_cast (app.py 451-484) in run(), statement by statement,
\* and the cast query of app_title (server.py 766-775)
\* ------------------------------------------------------------------------

\* everything outside the parts that are followed on their own
base_vars ==
    <<clock, backfill_vars, call_vars, tmdb_tls, env, tmdb_fg_limiter, tmdb_bg_limiter>>

\* what the steps of the cast refresh leave alone
cast_rest ==
    <<base_vars, upsert_vars, locale_vars, translated_vars, cache_vars, late_vars>>

\* (cdata.get("cast") or [])[:24]
cast_limit == 24

\* how many entries more than the limit an answer of the Provider may carry
MaxExtra == 1

\* the answers to GET /{kind}/{id}/credits: ver names the answer (its rows
\* differ from those of every other answer), n is the number of entries,
\* bad: entry 1 carries no id, dup: entry 2 repeats the credit_id of entry 1
Credits ==
    {[ver |-> 1, n |-> 0, bad |-> FALSE, dup |-> FALSE],
     [ver |-> 2, n |-> 2, bad |-> FALSE, dup |-> FALSE],
     [ver |-> 3, n |-> 2, bad |-> TRUE, dup |-> FALSE],
     [ver |-> 4, n |-> 2, bad |-> FALSE, dup |-> TRUE],
     [ver |-> 5, n |-> cast_limit + MaxExtra, bad |-> FALSE, dup |-> FALSE],
     [ver |-> 6, n |-> cast_limit + MaxExtra, bad |-> TRUE, dup |-> FALSE]}

\* the entries the loop visits
Sliced(n) == Min(n, cast_limit)

\* if pid is None or cid is None: continue
Skipped(resp, i) == resp.bad /\ i = 1

\* credit_id of entry i
CreditId(resp, i) == IF resp.dup /\ i = 2 THEN 1 ELSE i

CastEntry(resp, i) == [credit_id |-> CreditId(resp, i), ver |-> resp.ver]

\* the rows the task's connection sees: the committed rows and its own writes
CastView(t) == (IF ct[t].del THEN {} ELSE title_cast) \cup ct[t].add

\* the same with a fault: other connections read the writer's pending rows
ReaderView_Uncommitted ==
    IF cast_lock = None THEN title_cast ELSE CastView(cast_lock)

\* what a SELECT on another connection reads: the committed rows
ReaderView == title_cast

\* _missing_parts: need_cast = no title_cast row for the title (app.py 209)
CastDetect(t) ==
    /\ ct[t].pc = "idle"
    /\ ReaderView = {}
    /\ ct' = [ct EXCEPT ![t].pc = "fetch"]
    /\ UNCHANGED <<title_cast, cast_lock, cast_seen, cast_rest>>

\* _tmdb_get_json for the credits; if st_c != 200 or not cdata: return
CastFetch(t, ok, resp) ==
    /\ ct[t].pc = "fetch"
    /\ ct' = [ct EXCEPT ![t].pc = IF ok THEN "delete" ELSE "commit",
                        ![t].resp = IF ok THEN resp ELSE NoCredits]
    /\ UNCHANGED <<title_cast, cast_lock, cast_seen, cast_rest>>

\* DELETE FROM title_cast WHERE media_type=? AND tmdb_id=?: takes the write lock
CastDelete(t) ==
    /\ ct[t].pc = "delete"
    /\ cast_lock \in {None, t}
    /\ cast_lock' = t
    /\ ct' = [ct EXCEPT ![t].pc = "insert", ![t].i = 1, ![t].del = TRUE, ![t].add = {}]
    /\ UNCHANGED <<title_cast, cast_seen, cast_rest>>

\* the write lock stays with another connection for the whole busy_timeout:
\* the DELETE raises sqlite3.OperationalError
CastBusy(t) ==
    /\ ct[t].pc = "delete"
    /\ cast_lock \notin {None, t}
    /\ ct' = [ct EXCEPT ![t].pc = "finally"]
    /\ UNCHANGED <<title_cast, cast_lock, cast_seen, cast_rest>>

\* one round of the for loop: skip the entry, INSERT it, or raise
\* sqlite3.IntegrityError on a credit_id the title already has
CastInsert(t) ==
    LET resp == ct[t].resp
        i == ct[t].i
        e == CastEntry(resp, i)
    IN  /\ ct[t].pc = "insert"
        /\ i <= Sliced(resp.n)
        /\ IF Skipped(resp, i)
           THEN ct' = [ct EXCEPT ![t].i = i + 1]
           ELSE IF \E x \in CastView(t) : x.credit_id = e.credit_id
           THEN ct' = [ct EXCEPT ![t].pc = "finally"]
           ELSE ct' = [ct EXCEPT ![t].i = i + 1, ![t].add = @ \cup {e}]
        /\ UNCHANGED <<title_cast, cast_lock, cast_seen, cast_rest>>

\* the loop is over: back in run()
CastLoopEnd(t) ==
    /\ ct[t].pc = "insert"
    /\ ct[t].i > Sliced(ct[t].resp.n)
    /\ ct' = [ct EXCEPT ![t].pc = "commit"]
    /\ UNCHANGED <<title_cast, cast_lock, cast_seen, cast_rest>>

\* con.commit() of run()
CastCommit(t) ==
    /\ ct[t].pc = "commit"
    /\ title_cast' = CastView(t)
    /\ cast_lock' = IF cast_lock = t THEN None ELSE cast_lock
    /\ ct' = [ct EXCEPT ![t].pc = "finally", ![t].del = FALSE, ![t].add = {}]
    /\ UNCHANGED <<cast_seen, cast_rest>>

\* finally: con.close() rolls back what was not committed
CastFinally(t) ==
    /\ ct[t].pc = "finally"
    /\ cast_lock' = IF cast_lock = t THEN None ELSE cast_lock
    /\ ct' = [ct EXCEPT ![t] = IdleCastTask]
    /\ UNCHANGED <<title_cast, cast_seen, cast_rest>>

\* app_title: SELECT ... FROM title_cast WHERE media_type=? AND tmdb_id=?
CastRead ==
    /\ cast_seen' = ReaderView
    /\ UNCHANGED <<title_cast, ct, cast_lock, cast_rest>>

NextCast ==
    \/ \E t \in CastTasks :
        \/ CastDetect(t)
        \/ \E ok \in BOOLEAN, resp \in Credits : CastFetch(t, ok, resp)
        \/ CastDelete(t)
        \/ CastBusy(t)
        \/ CastInsert(t)
        \/ CastLoopEnd(t)
        \/ CastCommit(t)
        \/ CastFinally(t)
    \/ CastRead

SpecCast == Init /\ [][NextCast]_vars

\* ------------------------------------------------------------------------
\* One task applied to a store, as a whole: run() with its detector and its
\* upserts on rows that carry their values (app.py 173-228, 245-276, 280-607)
\* ------------------------------------------------------------------------

upsert_rest ==
    <<base_vars, cast_vars, locale_vars, translated_vars, cache_vars, late_vars>>

\* a row: its table, the columns of its key, val for its other columns, and
\* logos for the logos_json column of movies / series
URow(tbl, mt, tid) ==
    [tbl |-> tbl, mt |-> mt, tid |-> tid, lang |-> "-", region |-> "-",
     sn |-> 0, en |-> 0, credit |-> 0, val |-> 0, logos |-> None]

\* the key of a row: the PRIMARY KEY, named in ON CONFLICT(...)
KeyTuple(x) == [x EXCEPT !.val = 0, !.logos = None]

Stored(db, row) == {x \in db : KeyTuple(x) = KeyTuple(row)}

\* the same with a fault: an INSERT into a table without its unique key
Upsert_Append(db, row) == db \cup {row}

\* INSERT ... ON CONFLICT(key) DO UPDATE SET col=excluded.col, ...
Upsert(db, row) == (db \ Stored(db, row)) \cup {row}

\* str.lower() and str.upper() on the tags that occur
Lower(s) == CASE s = "DE" -> "de" [] s = "US" -> "us" [] s = "EN" -> "en" [] OTHER -> s
Upper(s) == CASE s = "de" -> "DE" [] s = "us" -> "US" [] s = "en" -> "EN" [] OTHER -> s

\* the least element of a non-empty set of numbers
Least(S) == CHOOSE i \in S : \A j \in S : i <= j

\* _missing_parts on these rows
MissingIn(db, inp) ==
    LET rows(tbl) == {x \in db : x.tbl = tbl /\ x.mt = inp.mt /\ x.tid = inp.tid}
        base == rows("base")
        need_base == base = {}
        need_logos == has_logos_json /\ (need_base \/ \A x \in base : x.logos = None)
        need_tr ==
            has_translations /\
            IF inp.iso3166 # None
            THEN ~\E x \in rows("title_translations") :
                    x.lang = inp.iso639 /\ x.region = inp.iso3166
            ELSE ~\E x \in rows("title_translations") : x.lang = inp.iso639
        need_cast == inp.full /\ has_cast /\ rows("title_cast") = {}
        need_vid == inp.full /\ has_videos /\ rows("title_videos") = {}
        need_tv == /\ inp.full /\ inp.mt = "tv"
                   /\ \/ has_seasons /\ rows("tv_seasons") = {}
                      \/ has_episodes /\ rows("tv_episodes") = {}
    IN  [any |-> need_base \/ need_logos \/ need_tr \/ need_cast \/ need_vid \/ need_tv,
         need_base |-> need_base, need_logos |-> need_logos,
         need_translations |-> need_tr, need_cast |-> need_cast,
         need_videos |-> need_vid, need_tv |-> need_tv]

\* _upsert_tmdb_base: logos_json is not among the columns it sets
upsert_tmdb_base(db, mt, tid, data) ==
    LET k == URow("base", mt, tid)
        old == Stored(db, k)
        kept == IF old = {} THEN None ELSE (CHOOSE x \in old : TRUE).logos
    IN  Upsert(db, [k EXCEPT !.val = data.v, !.logos = kept])

\* _upsert_tmdb_logos: UPDATE movies|series SET logos_json=? WHERE id=?
upsert_tmdb_logos(db, mt, tid, rs) ==
    LET by_lang == IF rs.logos1 # None THEN rs.logos1 ELSE rs.logos2
    IN  IF by_lang = None THEN db
        ELSE {IF KeyTuple(x) = URow("base", mt, tid)
              THEN [x EXCEPT !.logos = by_lang] ELSE x : x \in db}

\* _upsert_tmdb_videos: the first result with a key, then break
upsert_tmdb_videos(db, mt, tid, vdata) ==
    LET usable == {i \in 1..Len(vdata.results) : vdata.results[i].key}
    IN  IF ~vdata.ok \/ usable = {} THEN db
        ELSE Upsert(db, [URow("title_videos", mt, tid) EXCEPT
                            !.val = vdata.results[Least(usable)].v])

\* the loop of _upsert_tmdb_cast: a plain INSERT, which raises on a credit_id
\* the title already has
RECURSIVE InsertCast(_, _, _, _, _)
InsertCast(db, mt, tid, cast, i) ==
    IF i > Min(Len(cast), cast_limit) THEN [raised |-> FALSE, db |-> db]
    ELSE LET row == [URow("title_cast", mt, tid) EXCEPT
                        !.credit = cast[i].credit_id, !.val = cast[i].v]
         IN  IF cast[i].credit_id = 0 THEN InsertCast(db, mt, tid, cast, i + 1)
             ELSE IF Stored(db, row) # {} THEN [raised |-> TRUE, db |-> db]
             ELSE InsertCast(db \cup {row}, mt, tid, cast, i + 1)

\* _upsert_tmdb_cast
upsert_tmdb_cast(db, mt, tid, cdata) ==
    IF ~cdata.ok THEN [raised |-> FALSE, db |-> db]
    ELSE InsertCast({x \in db : ~(x.tbl = "title_cast" /\ x.mt = mt /\ x.tid = tid)},
                    mt, tid, cdata.cast, 1)

\* the loop of _upsert_tmdb_translations
RECURSIVE UpsertTranslations(_, _, _, _, _)
UpsertTranslations(db, mt, tid, its, i) ==
    IF i > Len(its) THEN db
    ELSE LET iso_639_1 == Lower(its[i].iso_639_1)
             iso_3166_1 == Upper(its[i].iso_3166_1)
             row == [URow("title_translations", mt, tid) EXCEPT
                        !.lang = iso_639_1, !.region = iso_3166_1, !.val = its[i].v]
         IN  IF iso_639_1 = "" \/ iso_3166_1 = ""
             THEN UpsertTranslations(db, mt, tid, its, i + 1)
             ELSE UpsertTranslations(Upsert(db, row), mt, tid, its, i + 1)

\* _upsert_tmdb_translations
upsert_tmdb_translations(db, mt, tid, tdata) ==
    IF ~tdata.ok THEN db ELSE UpsertTranslations(db, mt, tid, tdata.translations, 1)

RECURSIVE UpsertSeasons(_, _, _, _)
UpsertSeasons(db, tid, seasons, i) ==
    IF i > Len(seasons) THEN db
    ELSE IF seasons[i].sn <= 0 THEN UpsertSeasons(db, tid, seasons, i + 1)
    ELSE UpsertSeasons(
            Upsert(db, [URow("tv_seasons", "tv", tid) EXCEPT
                           !.sn = seasons[i].sn, !.val = seasons[i].v]),
            tid, seasons, i + 1)

RECURSIVE UpsertEpisodes(_, _, _, _, _)
UpsertEpisodes(db, tid, sn, eps, i) ==
    IF i > Len(eps) THEN db
    ELSE IF eps[i].en <= 0 THEN UpsertEpisodes(db, tid, sn, eps, i + 1)
    ELSE UpsertEpisodes(
            Upsert(db, [URow("tv_episodes", "tv", tid) EXCEPT
                           !.sn = sn, !.en = eps[i].en, !.val = eps[i].v]),
            tid, sn, eps, i + 1)

\* _upsert_tmdb_tv_seasons_episodes: the seasons of the base answer, then the
\* episodes of its first season with a positive number
upsert_tmdb_tv_seasons_episodes(db, tid, data, sdata) ==
    LET d1 == IF has_seasons THEN UpsertSeasons(db, tid, data.seasons, 1) ELSE db
        pos == {i \in 1..Len(data.seasons) : data.seasons[i].sn > 0}
    IN  IF ~has_episodes \/ pos = {} \/ ~sdata.ok THEN d1
        ELSE UpsertEpisodes(d1, tid, data.seasons[Least(pos)].sn, sdata.episodes, 1)

\* run(): the rows the store holds once the task has ended, by its commit or
\* without one (an early return or an exception: the rows it found)
RunTask(db, inp, rs) ==
    LET miss == MissingIn(db, inp)
        with_base == miss.need_base \/ (inp.mt = "tv" /\ miss.need_tv)
        b == upsert_tmdb_base(db, inp.mt, inp.tid, rs.base)
        d1 == IF ~with_base THEN db
              ELSE IF inp.mt = "tv" /\ miss.need_tv
              THEN upsert_tmdb_tv_seasons_episodes(b, inp.tid, rs.base, rs.season)
              ELSE b
        d2 == IF miss.need_logos THEN upsert_tmdb_logos(d1, inp.mt, inp.tid, rs) ELSE d1
        d3 == IF miss.need_videos THEN upsert_tmdb_videos(d2, inp.mt, inp.tid, rs.videos) ELSE d2
        c == IF miss.need_cast THEN upsert_tmdb_cast(d3, inp.mt, inp.tid, rs.credits)
             ELSE [raised |-> FALSE, db |-> d3]
        d5 == IF miss.need_translations
              THEN upsert_tmdb_translations(c.db, inp.mt, inp.tid, rs.translations)
              ELSE c.db
    IN  IF ~miss.any THEN db
        ELSE IF with_base /\ ~rs.base.ok THEN db
        ELSE IF c.raised THEN db
        ELSE d5

\* the answers of the Provider to the calls of one task
BaseAnswers ==
    {[ok |-> FALSE, v |-> 0, seasons |-> <<>>],
     [ok |-> TRUE, v |-> 1, seasons |-> <<>>],
     [ok |-> TRUE, v |-> 2,
      seasons |-> <<[sn |-> 0, v |-> 1], [sn |-> 2, v |-> 1], [sn |-> 2, v |-> 2], [sn |-> 1, v |-> 1]>>]}

LogosAnswers == {<<None, None>>, <<None, "L2">>, <<"L1", "L2">>}

VideoAnswers ==
    {[ok |-> FALSE, results |-> <<>>],
     [ok |-> TRUE, results |-> <<[key |-> FALSE, v |-> 1], [key |-> TRUE, v |-> 2], [key |-> TRUE, v |-> 3]>>]}

CreditAnswers ==
    {[ok |-> FALSE, cast |-> <<>>],
     [ok |-> TRUE, cast |-> <<[credit_id |-> 0, v |-> 1], [credit_id |-> 1, v |-> 1], [credit_id |-> 2, v |-> 1]>>],
     [ok |-> TRUE, cast |-> <<[credit_id |-> 1, v |-> 1], [credit_id |-> 1, v |-> 2]>>]}

TranslationAnswers ==
    {[ok |-> FALSE, translations |-> <<>>],
     [ok |-> TRUE, translations |->
        <<[iso_639_1 |-> "DE", iso_3166_1 |-> "de", v |-> 1],
          [iso_639_1 |-> "de", iso_3166_1 |-> "", v |-> 2],
          [iso_639_1 |-> "de", iso_3166_1 |-> "DE", v |-> 3],
          [iso_639_1 |-> "en", iso_3166_1 |-> "US", v |-> 1]>>]}

SeasonAnswers ==
    {[ok |-> FALSE, episodes |-> <<>>],
     [ok |-> TRUE, episodes |->
        <<[en |-> 0, v |-> 1], [en |-> 1, v |-> 1], [en |-> 1, v |-> 2], [en |-> 2, v |-> 1]>>]}

Answers ==
    {[base |-> b, logos1 |-> l[1], logos2 |-> l[2], videos |-> v, credits |-> c,
      translations |-> tr, season |-> s] :
        b \in BaseAnswers, l \in LogosAnswers, v \in VideoAnswers, c \in CreditAnswers,
        tr \in TranslationAnswers, s \in SeasonAnswers}

TaskInputs ==
    {Inp(mt, 2, "de", region, full) :
        mt \in MediaTypes, region \in {"DE", None}, full \in BOOLEAN}

\* the stores a task may find: nothing of the title, its base row only, the
\* title with a logo, a translation, a video and two cast rows, and for a
\* series a season and an episode besides
StoresFor(mt) ==
    LET base == [URow("base", mt, 2) EXCEPT !.val = 9]
        parts == {[base EXCEPT !.logos = "L0"],
                  [URow("title_translations", mt, 2) EXCEPT !.lang = "de", !.region = "DE", !.val = 9],
                  [URow("title_videos", mt, 2) EXCEPT !.val = 9],
                  [URow("title_cast", mt, 2) EXCEPT !.credit = 1, !.val = 9],
                  [URow("title_cast", mt, 2) EXCEPT !.credit = 3, !.val = 9]}
        tv == {[URow("tv_seasons", "tv", 2) EXCEPT !.sn = 2, !.val = 9],
               [URow("tv_episodes", "tv", 2) EXCEPT !.sn = 2, !.en = 1, !.val = 9]}
    IN  {{}, {base}, parts, parts \cup (IF mt = "tv" THEN tv ELSE {})}

\* the pool thread runs the task: run() from its first line to its last
ApplyTask ==
    /\ uapplied < 2
    /\ udb' = RunTask(udb, utask.inp, utask.rs)
    /\ uonce' = IF uapplied = 0 THEN udb' ELSE uonce
    /\ uapplied' = uapplied + 1
    /\ UNCHANGED <<utask, upsert_rest>>

InitUpsert ==
    /\ BaseInit(DefaultEnv)
    /\ CastIdle /\ LocaleIdle /\ TranslatedIdle /\ CacheIdle /\ LateIdle
    /\ utask \in [inp : TaskInputs, rs : Answers]
    /\ udb \in StoresFor(utask.inp.mt)
    /\ uonce = udb
    /\ uapplied = 0

SpecUpsert == InitUpsert /\ [][ApplyTask]_vars

\* ------------------------------------------------------------------------
\* lang.py: _split_lang, _accept_lang, _pick_lang on strings as sequences of
\* characters
\* ------------------------------------------------------------------------

locale_rest ==
    <<base_vars, cast_vars, upsert_vars, translated_vars, cache_vars, late_vars>>

\* the longest lang parameter and the longest header that are tried
MaxQueryLen == 3
MaxHeaderLen == 3

QueryChars == {"d", "E", "-", "_", " "}
HeaderChars == {"d", "-", " ", ",", ";"}

Strings(chars, n) == UNION {[1..k -> chars] : k \in 0..n}

\* str.strip()
RECURSIVE StripLeft(_)
StripLeft(s) == IF s # <<>> /\ Head(s) = " " THEN StripLeft(Tail(s)) ELSE s

RECURSIVE StripRight(_)
StripRight(s) ==
    IF s # <<>> /\ s[Len(s)] = " " THEN StripRight(SubSeq(s, 1, Len(s) - 1)) ELSE s

Strip(s) == StripRight(StripLeft(s))

\* the place of the first c in s, 0 when there is none
Find(s, c) ==
    LET at == {i \in 1..Len(s) : s[i] = c}
    IN  IF at = {} THEN 0 ELSE Least(at)

\* s.split(c, 1)[0] and, when c occurs, s.split(c, 1)[1]
BeforeFirst(s, c) == IF Find(s, c) = 0 THEN s ELSE SubSeq(s, 1, Find(s, c) - 1)
AfterFirst(s, c) == SubSeq(s, Find(s, c) + 1, Len(s))

\* s.replace(a, b)
Replace(s, a, b) == [i \in 1..Len(s) |-> IF s[i] = a THEN b ELSE s[i]]

LowerChar(c) == CASE c = "D" -> "d" [] c = "E" -> "e" [] OTHER -> c
UpperChar(c) == CASE c = "d" -> "D" [] c = "e" -> "E" [] OTHER -> c

\* s.lower() and s.upper()
lower(s) == [i \in 1..Len(s) |-> LowerChar(s[i])]
upper(s) == [i \in 1..Len(s) |-> UpperChar(s[i])]

\* ("en", None)
En == Locale(<<"e", "n">>, FALSE, <<>>)

\* _split_lang
split_lang(s) ==
    LET s1 == Strip(s)
        s2 == Replace(s1, "_", "-")
        a == lower(Strip(BeforeFirst(s2, "-")))
        b == upper(Strip(AfterFirst(s2, "-")))
    IN  IF s1 = <<>> THEN En
        ELSE IF Find(s2, "-") # 0
        THEN Locale(IF a = <<>> THEN <<"e", "n">> ELSE a, b # <<>>, b)
        ELSE Locale(lower(s2), FALSE, <<>>)

\* _accept_lang
accept_lang(header_val) ==
    IF ~header_val.present \/ header_val.val = <<>> THEN En
    ELSE LET first == Strip(BeforeFirst(header_val.val, ","))
             tag == Strip(BeforeFirst(first, ";"))
         IN  split_lang(tag)

\* the same with a fault: the header asked before the query parameter
pick_lang_HeaderFirst(v, accept_language) ==
    IF accept_language.present /\ accept_language.val # <<>>
    THEN accept_lang(accept_language)
    ELSE split_lang(v)

\* _pick_lang: v is (qs.get("lang") or [""])[0]
pick_lang(v, accept_language) ==
    IF Strip(v) # <<>> THEN split_lang(Strip(v)) ELSE accept_lang(accept_language)

\* Handler.do_GET: iso639, iso3166 = _pick_lang(qs, self.headers.get("Accept-Language"))
PickLang ==
    /\ ~lout.done
    /\ lout' = [done |-> TRUE, loc |-> pick_lang(lq, lh)]
    /\ UNCHANGED <<lq, lh, locale_rest>>

InitLocale ==
    /\ BaseInit(DefaultEnv)
    /\ CastIdle /\ UpsertIdle /\ TranslatedIdle /\ CacheIdle /\ LateIdle
    /\ lq \in Strings(QueryChars, MaxQueryLen)
    /\ lh \in {NoHeader} \cup
              {[present |-> TRUE, val |-> h] : h \in Strings(HeaderChars, MaxHeaderLen)}
    /\ lout = NoLocale

SpecLocale == InitLocale /\ [][PickLang]_vars

\* ------------------------------------------------------------------------
\* App._translated (app.py 631-657) and the name and overview app_title
\* serves (server.py 697-699)
\* ------------------------------------------------------------------------

translated_rest ==
    <<base_vars, cast_vars, upsert_vars, locale_vars, cache_vars, late_vars>>

\* a row of title_translations; title = None: the column is NULL
TrRow(mt, tid, lang, region, title, overview) ==
    [mt |-> mt, tid |-> tid, lang |-> lang, region |-> region,
     title |-> title, overview |-> overview]

\* the same with a fault: the language-only lookup made first
translated_AnyRegionFirst(rows, mt, tid, iso639, iso3166) ==
    LET anyr == {x \in rows : x.mt = mt /\ x.tid = tid /\ x.lang = iso639}
    IN  IF anyr # {} THEN {<<x.title, x.overview>> : x \in anyr} ELSE {<<None, None>>}

\* _translated: the pairs it may return (LIMIT 1 without ORDER BY takes any
\* of the rows that match)
translated(rows, mt, tid, iso639, iso3166) ==
    LET exact == {x \in rows : /\ x.mt = mt /\ x.tid = tid
                               /\ x.lang = iso639 /\ x.region = iso3166}
        anyr == {x \in rows : x.mt = mt /\ x.tid = tid /\ x.lang = iso639}
    IN  IF ~has_translations THEN {<<None, None>>}
        ELSE IF iso3166 # None /\ exact # {} THEN {<<x.title, x.overview>> : x \in exact}
        ELSE IF anyr # {} THEN {<<x.title, x.overview>> : x \in anyr}
        ELSE {<<None, None>>}

\* a or b
Or(a, b) == IF a \notin {None, ""} THEN a ELSE b

\* the base columns of the title
base_name == "Base"
base_over == "BaseOverview"

\* app_title: t_title, t_over = self.app._translated(...); name = (t_title or
\* base_name or "").strip(); description = (t_over or base_over or "").strip()
Translate(res) ==
    /\ ~tr_out.done
    /\ res \in translated(tr_rows, tr_arg.mt, tr_arg.tid, tr_arg.iso639, tr_arg.iso3166)
    /\ tr_out' = [done |-> TRUE, title |-> res[1], overview |-> res[2],
                  name |-> Or(Or(res[1], base_name), ""),
                  description |-> Or(Or(res[2], base_over), "")]
    /\ UNCHANGED <<tr_rows, tr_arg, translated_rest>>

TrLangs == {"de", "en"}
TrRegions == {"DE", "AT"}

\* what the store may hold for one (lang, region) of the title: no row, a row
\* whose title is NULL, a row with a title
TrChoices == {"none", "null", "set"}

TrStore(f) ==
    {TrRow("movie", 1, k[1], k[2],
           IF f[k] = "set" THEN "T-" \o k[1] \o "-" \o k[2] ELSE None,
           "O-" \o k[1] \o "-" \o k[2]) :
        k \in {x \in TrLangs \X TrRegions : f[x] # "none"}}
    \cup {TrRow("tv", 1, "de", "DE", "T-other", "O-other"),
          TrRow("movie", 2, "fr", "CH", "T-other", "O-other")}

Translations == {None, "T-other"} \cup {"T-" \o k[1] \o "-" \o k[2] : k \in TrLangs \X TrRegions}
Overviews == {None, "O-other"} \cup {"O-" \o k[1] \o "-" \o k[2] : k \in TrLangs \X TrRegions}

InitTranslated ==
    /\ BaseInit(DefaultEnv)
    /\ CastIdle /\ UpsertIdle /\ LocaleIdle /\ CacheIdle /\ LateIdle
    /\ \E f \in [TrLangs \X TrRegions -> TrChoices] : tr_rows = TrStore(f)
    /\ tr_arg \in [mt : {"movie"}, tid : {1}, iso639 : {"de", "fr"}, iso3166 : {None, "DE", "CH"}]
    /\ tr_out = NoTranslated

NextTranslated == \E res \in Translations \X Overviews : Translate(res)

SpecTranslated == InitTranslated /\ [][NextTranslated]_vars

\* ------------------------------------------------------------------------
\* The home, similar and trending caches
\* ------------------------------------------------------------------------

\* the instants at which time.time() is read: the start, a second later, half
\* the home TTL later, the home TTL later, the similar TTL later
CacheInstants ==
    {TickS, TickS + 1, TickS + home_ttl_s \div 2, TickS + home_ttl_s, TickS + similar_ttl_s}

CacheTick(c) ==
    /\ c > clock
    /\ clock' = c
    /\ sent' = NoReturn
    /\ UNCHANGED <<backfill_vars, tmdb_tls, env, call_vars, tmdb_fg_limiter, tmdb_bg_limiter,
                   cast_vars, upsert_vars, locale_vars, translated_vars, late_vars,
                   home_cache, list_cache, ch, composed, fetched>>

\* the test every cache read makes: (now - cur[0]) < ttl
Fresh_Inclusive(now, ts, ttl) == now - ts <= ttl

Fresh(now, ts, ttl) == now - ts < ttl

Ttl(c) == IF c = "similar" THEN similar_ttl_s ELSE trending_ttl_s

\* json.dumps(obj, ...).encode("utf-8"), gzip.compress(raw, 5), _br_compress(raw)
Ser(obj) == <<"json", obj>>

Gzip(raw) == <<"gzip", raw>>

Brotli(raw) == <<"br", raw>>

\* _br_compress: None when brotli is missing or compress raises
BrCompress(raw) == {Brotli(raw), NoBytes}

Served(op, how, obj, raw, gz, br) ==
    [op |-> op, how |-> how, obj |-> obj, raw |-> raw, gz |-> gz, br |-> br]

ServedObj(op, how, obj) == Served(op, how, obj, NoBytes, NoBytes, NoBytes)

CacheRest == <<base_vars, cast_vars, upsert_vars, locale_vars, translated_vars, late_vars>>

\* the thread t returns ret: its locals are gone
Back(t, ret) ==
    /\ ch' = [ch EXCEPT ![t] = IdleCacheThread]
    /\ sent' = ret

\* the thread t, asked for op, goes on to the statement pc holding now and obj
Goes(t, op, pc, now, obj) ==
    /\ ch' = [ch EXCEPT ![t] = [pc |-> pc, op |-> op, now |-> now, obj |-> obj]]
    /\ sent' = NoReturn

\* The three caches share no state (a dict and a lock each), so a run is given
\* requests for one of them: the first request decides which, and every thread
\* may make any request that reads that cache.
CacheOf(op) == IF op \in {"home", "search"} THEN "home" ELSE op

Asked ==
    {CacheOf(ch[t].op) : t \in {u \in CacheThreads : ch[u].op # "none"}}
        \cup {CacheOf(sent.op) : x \in {y \in {1} : sent.op # "none"}}
        \cup {"home" : x \in {y \in {1} : home_cache.n > 0 \/ composed > 0}}
        \cup {c \in ListCaches : list_cache[c].n > 0}

MayAsk(op) == Asked \subseteq {CacheOf(op)}

\* do_GET /v1/home: app_home_bytes reads the clock
HomeBytesBegin(t) ==
    /\ ch[t].pc = "idle"
    /\ MayAsk("home")
    /\ Goes(t, "home", "b_check", clock, 0)
    /\ UNCHANGED <<home_cache, list_cache, composed, fetched, CacheRest>>

\* app_home_bytes, first critical section: a fresh 5-tuple is served as it is
HomeBytesCheck(t) ==
    /\ ch[t].pc = "b_check"
    /\ IF home_cache.n >= 1 /\ Fresh(ch[t].now, home_cache.ts, home_ttl_s) /\ home_cache.n >= 5
       THEN Back(t, Served("home", "hit", home_cache.obj, home_cache.raw, home_cache.gz,
                           home_cache.br))
       ELSE Goes(t, ch[t].op, "h_enter", 0, 0)
    /\ UNCHANGED <<home_cache, list_cache, composed, fetched, CacheRest>>

\* a search page with an empty query: app_search_page calls app_home
SearchBegin(t) ==
    /\ ch[t].pc = "idle"
    /\ MayAsk("search")
    /\ Goes(t, "search", "h_enter", 0, 0)
    /\ UNCHANGED <<home_cache, list_cache, composed, fetched, CacheRest>>

\* app_home reads the clock
AppHomeEnter(t) ==
    /\ ch[t].pc = "h_enter"
    /\ Goes(t, ch[t].op, "h_check", clock, 0)
    /\ UNCHANGED <<home_cache, list_cache, composed, fetched, CacheRest>>

\* app_home, first critical section: a fresh entry's object is returned
AppHomeCheck(t) ==
    /\ ch[t].pc = "h_check"
    /\ IF home_cache.n >= 1 /\ Fresh(ch[t].now, home_cache.ts, home_ttl_s)
       THEN IF ch[t].op = "search"
            THEN Back(t, ServedObj("search", "hit", home_cache.obj))
            ELSE Goes(t, ch[t].op, "b_store", 0, home_cache.obj)
       ELSE Goes(t, ch[t].op, "h_compose", 0, 0)
    /\ UNCHANGED <<home_cache, list_cache, composed, fetched, CacheRest>>

\* app_home composes the page: "as_of": int(time.time()) makes it this moment's
\* object; a raising query leaves through finally without storing
AppHomeCompose(t, ok) ==
    /\ ch[t].pc = "h_compose"
    /\ composed < MaxComposed
    /\ composed' = composed + 1
    /\ IF ok
       THEN Goes(t, ch[t].op, "h_store", 0, clock)
       ELSE Back(t, ServedObj(ch[t].op, "error", 0))
    /\ UNCHANGED <<home_cache, list_cache, fetched, CacheRest>>

\* app_home, second critical section: home_cache[lang_tag] = (time.time(), out)
AppHomeStore(t) ==
    /\ ch[t].pc = "h_store"
    /\ home_cache' = [n |-> 2, ts |-> clock, obj |-> ch[t].obj,
                      raw |-> NoBytes, gz |-> NoBytes, br |-> NoBytes]
    /\ IF ch[t].op = "search"
       THEN Back(t, ServedObj("search", "miss", ch[t].obj))
       ELSE Goes(t, ch[t].op, "b_store", 0, ch[t].obj)
    /\ UNCHANGED <<list_cache, composed, fetched, CacheRest>>

\* app_home_bytes serializes what app_home returned and, in its second critical
\* section, attaches the bytes to whatever entry is there now
HomeBytesStore(t, br) ==
    /\ ch[t].pc = "b_store"
    /\ LET raw == Ser(ch[t].obj)
           gz == Gzip(raw)
       IN /\ br \in BrCompress(raw)
          /\ home_cache' =
                 IF home_cache.n >= 2
                 THEN [n |-> 5, ts |-> home_cache.ts, obj |-> home_cache.obj,
                       raw |-> raw, gz |-> gz, br |-> br]
                 ELSE [n |-> 5, ts |-> clock, obj |-> ch[t].obj,
                       raw |-> raw, gz |-> gz, br |-> br]
          /\ Back(t, Served("home", "miss", ch[t].obj, raw, gz, br))
    /\ UNCHANGED <<list_cache, composed, fetched, CacheRest>>

\* _tmdb_similar / _tmdb_trending read the clock
ListBegin(t, c) ==
    /\ ch[t].pc = "idle"
    /\ MayAsk(c)
    /\ Goes(t, c, "l_check", clock, 0)
    /\ UNCHANGED <<home_cache, list_cache, composed, fetched, CacheRest>>

\* first critical section: a fresh entry's list is returned
ListCheck(t) ==
    /\ ch[t].pc = "l_check"
    /\ LET cur == list_cache[ch[t].op]
       IN IF cur.n >= 1 /\ Fresh(ch[t].now, cur.ts, Ttl(ch[t].op))
          THEN Back(t, ServedObj(ch[t].op, "hit", cur.out))
          ELSE Goes(t, ch[t].op, "l_fetch", ch[t].now, 0)
    /\ UNCHANGED <<home_cache, list_cache, composed, fetched, CacheRest>>

\* the request to the Provider: no response returns [] uncached, a 200 gives
\* the results, anything else (a status, an exception) gives []
ListFetch(t, outcome) ==
    /\ ch[t].pc = "l_fetch"
    /\ fetched < MaxFetched
    /\ fetched' = fetched + 1
    /\ CASE outcome = "none" -> Back(t, ServedObj(ch[t].op, "miss", 0))
         [] outcome = "ok" -> Goes(t, ch[t].op, "l_store", ch[t].now, fetched + 1)
         [] OTHER -> Goes(t, ch[t].op, "l_store", ch[t].now, 0)
    /\ UNCHANGED <<home_cache, list_cache, composed, CacheRest>>

\* a cache that keeps no empty list
ListEntry_ResultsOnly(cur, now, out) == IF out = 0 THEN cur ELSE [n |-> 2, ts |-> now, out |-> out]

\* cache[k] = (now, out), whatever out is
ListEntry(cur, now, out) == [n |-> 2, ts |-> now, out |-> out]

\* second critical section: cache[k] = (now, out), now being the entry stamp
ListStore(t) ==
    /\ ch[t].pc = "l_store"
    /\ list_cache' = [list_cache EXCEPT
                         ![ch[t].op] = ListEntry(@, ch[t].now, ch[t].obj)]
    /\ Back(t, ServedObj(ch[t].op, "miss", ch[t].obj))
    /\ UNCHANGED <<home_cache, composed, fetched, CacheRest>>

NextCache ==
    \/ \E c \in CacheInstants : CacheTick(c)
    \/ \E t \in CacheThreads :
          \/ HomeBytesBegin(t)
          \/ HomeBytesCheck(t)
          \/ SearchBegin(t)
          \/ AppHomeEnter(t)
          \/ AppHomeCheck(t)
          \/ \E ok \in BOOLEAN : AppHomeCompose(t, ok)
          \/ AppHomeStore(t)
          \/ \E br \in BrCompress(Ser(ch[t].obj)) : HomeBytesStore(t, br)
          \/ \E c \in ListCaches : ListBegin(t, c)
          \/ ListCheck(t)
          \/ \E outcome \in {"none", "ok", "fail"} : ListFetch(t, outcome)
          \/ ListStore(t)

SpecCache == Init /\ [][NextCache]_vars

\* ------------------------------------------------------------------------
\* The per-IP rate limit of the handler (server.py 94-114, 174-211)
\* ------------------------------------------------------------------------

\* Time is time.monotonic() in instants of 1/RlUnit s and tokens are kept in
\* 1/RlUnit of a token, so that a rate of RATE_LIMIT_RPS tokens per second is
\* RATE_LIMIT_RPS units per instant.  RlCap stands for the 20000 entries
\* after which the table is cleared.
rl_rest ==
    <<base_vars, cast_vars, upsert_vars, locale_vars, translated_vars, cache_vars, fn_vars,
      detail_vars, lock_vars>>

RlEnvs ==
    {[RATE_LIMIT_RPS |-> 3, RATE_LIMIT_BURST |-> 3],
     [RATE_LIMIT_RPS |-> 3, RATE_LIMIT_BURST |-> 1],
     [RATE_LIMIT_RPS |-> 0, RATE_LIMIT_BURST |-> 3]}

NoEntry == [has |-> FALSE, tokens |-> 0, last |-> 0]

\* tokens = min(burst, tokens + (now - last) * rps)
Refill_NoCap(tokens, last, now, rps, burst) == tokens + (now - last) * rps

Refill(tokens, last, now, rps, burst) == Min(burst * RlUnit, tokens + (now - last) * rps)

\* a table that is never cleared
Put_NoClear(table, ip, e) == [table EXCEPT ![ip] = e]

\* self._rl[ip] = e, then `if len(self._rl) > 20000: self._rl.clear()`
Put(table, ip, e) ==
    LET put == [table EXCEPT ![ip] = e]
    IN IF Cardinality({i \in Ips : put[i].has}) > RlCap THEN [i \in Ips |-> NoEntry] ELSE put

\* _rate_allow: the verdict and the table it leaves
rate_allow(table, e, ip, now) ==
    LET rps == e.RATE_LIMIT_RPS
        burst == e.RATE_LIMIT_BURST
        cur == IF table[ip].has THEN table[ip]
               ELSE [has |-> TRUE, tokens |-> burst * RlUnit, last |-> now]
        tokens == Refill(cur.tokens, cur.last, now, rps, burst)
    IN IF rps <= 0 \/ burst <= 0 THEN [ok |-> TRUE, table |-> table]
       ELSE IF tokens < RlUnit
            THEN [ok |-> FALSE, table |-> Put(table, ip, [has |-> TRUE, tokens |-> tokens, last |-> now])]
            ELSE [ok |-> TRUE,
                  table |-> Put(table, ip, [has |-> TRUE, tokens |-> tokens - RlUnit, last |-> now])]

Response(ip, method, code, retry_after) ==
    [ip |-> ip, method |-> method, code |-> code, retry_after |-> retry_after]

\* do_GET: a refused request is answered by _send(429, b"rate limited\n"),
\* an admitted one by its route (200 or 404)
do_GET(ip, ok, routed) ==
    IF ~ok THEN Response(ip, "GET", 429, None) ELSE Response(ip, "GET", routed, None)

\* do_OPTIONS: a refused request is answered 429 with Retry-After: 1, an
\* admitted one 204
do_OPTIONS(ip, ok) ==
    IF ~ok THEN Response(ip, "OPTIONS", 429, "1") ELSE Response(ip, "OPTIONS", 204, None)

\* the IP whose requests are remembered
TrackedIp == 1

\* the last four requests of TrackedIp since the table was last cleared
Remember(hist, ip, now, ok, cleared) ==
    IF cleared THEN <<>>
    ELSE IF ip # TrackedIp THEN hist
    ELSE LET h == Append(hist, [t |-> now, ok |-> ok])
         IN IF Len(h) > 4 THEN Tail(h) ELSE h

\* one request, from its rate check to its response
Handle(ip, method, routed) ==
    /\ rl_n < MaxHits
    /\ rl_n' = rl_n + 1
    /\ LET v == rate_allow(rl, rl_env, ip, rl_mono)
           cleared == \E i \in Ips : rl[i].has /\ ~v.table[i].has
       IN /\ rl' = v.table
          /\ rl_resp' = IF method = "GET" THEN do_GET(ip, v.ok, routed) ELSE do_OPTIONS(ip, v.ok)
          /\ rl_hist' = Remember(rl_hist, ip, rl_mono, v.ok, cleared)
    /\ UNCHANGED <<rl_env, rl_mono, rl_rest>>

RlTick ==
    /\ rl_mono < RlHorizon
    /\ rl_mono' = rl_mono + 1
    /\ UNCHANGED <<rl, rl_env, rl_resp, rl_hist, rl_n, rl_rest>>

InitRateLimit ==
    /\ BaseInit(DefaultEnv)
    /\ CastIdle /\ UpsertIdle /\ LocaleIdle /\ TranslatedIdle /\ CacheIdle /\ FnIdle
    /\ DetailIdle /\ LocksIdle
    /\ rl = [ip \in Ips |-> NoEntry]
    /\ rl_env \in RlEnvs
    /\ rl_mono = 0
    /\ rl_resp = NoResponse
    /\ rl_hist = <<>>
    /\ rl_n = 0

NextRateLimit ==
    \/ RlTick
    \/ \E ip \in Ips, method \in {"GET", "OPTIONS"}, routed \in {200, 404} :
          Handle(ip, method, routed)

SpecRateLimit == InitRateLimit /\ [][NextRateLimit]_vars

\* ------------------------------------------------------------------------
\* app_title for an id unknown locally: the two concurrent lookups
\* (app.py 134-171, server.py 659-665, 230-235)
\* ------------------------------------------------------------------------

fn_rest ==
    <<base_vars, cast_vars, upsert_vars, locale_vars, translated_vars, cache_vars, rl_vars,
      detail_vars, lock_vars>>

\* _tmdb_get_json: (200, a non-empty object), (200, None or {}), (a status
\* other than 200, None), (None, None)
Lookups == {"ok", "empty", "status", "none"}

LookupStatus(o) == IF o \in {"ok", "empty"} THEN 200 ELSE IF o = "status" THEN 404 ELSE NoStatus

Fetched(mt, o) == [raised |-> FALSE, mt |-> mt, st |-> LookupStatus(o), data |-> (o = "ok")]

\* next(iter(pending)) on an empty set
StopIteration == [raised |-> TRUE, mt |-> None, st |-> NoStatus, data |-> FALSE]

OtherOf(mt) == IF mt = "movie" THEN "tv" ELSE "movie"

\* App._tmdb_fetch_title_any.  a.done are the futures wait() reports as done,
\* a.pick the one that iter(done) yields first.
tmdb_fetch_title_any(a) ==
    LET first == Fetched(a.pick, a.answer[a.pick])
        pending == {"movie", "tv"} \ a.done
        other == Fetched(OtherOf(a.pick), a.answer[OtherOf(a.pick)])
    IN IF ~a.key THEN [raised |-> FALSE, mt |-> None, st |-> NoStatus, data |-> FALSE]
       ELSE IF first.st = 200 /\ first.data THEN first
       ELSE IF pending = {} THEN StopIteration
       ELSE IF other.st = 200 /\ other.data THEN other
       ELSE IF first.st = 200 THEN first ELSE other

\* what do_GET sends for /v1/titles/{id} when the id is in neither table:
\* code 0 stands for the exception that leaves do_GET without a response
TitleAnswer(code, kind, upserted, scheduled) ==
    [f |-> "app_title", code |-> code, kind |-> kind, upserted |-> upserted,
     scheduled |-> scheduled]

app_title_remote(a) ==
    LET got == tmdb_fetch_title_any(a)
    IN IF got.raised THEN TitleAnswer(0, None, FALSE, FALSE)
       ELSE IF got.st # 200 \/ ~got.data \/ got.mt \notin {"movie", "tv"}
            THEN TitleAnswer(404, None, FALSE, FALSE)
            ELSE TitleAnswer(200, IF got.mt = "movie" THEN "movie" ELSE "series", TRUE, TRUE)

TitleAnyCalls ==
    {a \in [f : {"app_title"}, key : BOOLEAN, answer : [{"movie", "tv"} -> Lookups],
            done : (SUBSET {"movie", "tv"}) \ {{}}, pick : {"movie", "tv"}] : a.pick \in a.done}

AppTitleRemote ==
    /\ fn_arg.f = "app_title"
    /\ fn_res = NoCall
    /\ fn_res' = app_title_remote(fn_arg)
    /\ UNCHANGED <<fn_arg, fn_rest>>

InitFn(calls) ==
    /\ BaseInit(DefaultEnv)
    /\ CastIdle /\ UpsertIdle /\ LocaleIdle /\ TranslatedIdle /\ CacheIdle /\ RlIdle
    /\ DetailIdle /\ LocksIdle
    /\ fn_arg \in calls
    /\ fn_res = NoCall

InitTitleAny == InitFn(TitleAnyCalls)

SpecTitleAny == InitTitleAny /\ [][AppTitleRemote]_vars

\* ------------------------------------------------------------------------
\* APIServer.app_title after the remote lookup (server.py 659-763): the base
\* row is committed, the full backfill is submitted to backfill_ex, and the
\* handler goes on to read the document from its own connection
\* ------------------------------------------------------------------------

detail_rest ==
    <<cast_vars, upsert_vars, locale_vars, translated_vars, cache_vars, rl_vars, fn_vars,
      lock_vars>>

\* self.app._schedule_backfill(mt, tid, ..., full=True): submit(run) returns at
\* once, the handler does not wait for the task
ReqTitleScheduled(r) ==
    /\ rq[r].pc = "stamped"
    /\ schedule_backfill(rq[r].inp, rq[r].now)
    /\ rq' = [rq EXCEPT ![r].pc = "seasons"]
    /\ UNCHANGED <<clock, wk, store, db_writer, tmdb_tls, env, part_vars, call_vars,
                   tmdb_fg_limiter, tmdb_bg_limiter, acq_log, served, faults>>

\* kind = "movie" if mt == "movie" else "series"
KindOf(mt) == IF mt = "movie" THEN "movie" ELSE "series"

\* SELECT season_number, episode_count FROM tv_seasons WHERE series_id=?: the
\* handler's connection sees the committed rows only; sn is the first season
\* with a positive number.  A movie has no seasons block and is sent here.
ReqDetailSeasons(r) ==
    LET inp == rq[r].inp
        sn == SeasonRow(inp.tid) \in store
    IN  /\ rq[r].pc = "seasons"
        /\ title_out' = [title_out EXCEPT ![r] =
                [sent |-> inp.mt = "movie", kind |-> KindOf(inp.mt),
                 prefetch_season |-> inp.mt = "tv" /\ sn, prefetch_episodes |-> FALSE]]
        /\ rq' = [rq EXCEPT ![r] = IF inp.mt = "movie" THEN IdleReq
                                   ELSE [rq[r] EXCEPT !.pc = "episodes"]]
        /\ UNCHANGED <<clock, backfill_recent, backfill_inflight, queue, wk, store, db_writer,
                       tmdb_tls, env, detail_rest, call_vars, tmdb_fg_limiter, tmdb_bg_limiter,
                       submitted, acq_log, served, faults>>

\* if sn is None: SELECT MIN(season_number) FROM tv_episodes ...; then, with a
\* season, SELECT ... FROM tv_episodes WHERE series_id=? AND season_number=?
\* ORDER BY episode_number ASC; the document is returned
ReqDetailEpisodes(r) ==
    LET inp == rq[r].inp
        eps == EpisodeRow(inp.tid) \in store
        sn == title_out[r].prefetch_season \/ eps
    IN  /\ rq[r].pc = "episodes"
        /\ title_out' = [title_out EXCEPT ![r] =
                [sent |-> TRUE, kind |-> "series",
                 prefetch_season |-> sn, prefetch_episodes |-> sn /\ eps]]
        /\ rq' = [rq EXCEPT ![r] = IdleReq]
        /\ UNCHANGED <<clock, backfill_recent, backfill_inflight, queue, wk, store, db_writer,
                       tmdb_tls, env, detail_rest, call_vars, tmdb_fg_limiter, tmdb_bg_limiter,
                       submitted, acq_log, served, faults>>

NextFallback ==
    \/ \E r \in Requests :
        \/ \E t \in TitleRequests : ReqTitleRemote(r, t)
        \/ \E mt \in MediaTypes \cup {None} : ReqTitleFetched(r, mt)
        \/ ReqTitleUpsert(r)
        \/ ReqTitleStoreError(r)
        \/ ReqTitleScheduled(r)
        \/ ReqDetailSeasons(r)
        \/ ReqDetailEpisodes(r)
    \/ \E w \in Workers :
        \/ \E ok \in BOOLEAN : WorkerStart(w, ok)
        \/ \E o \in Outcomes :
            \/ WorkerBase(w, o)
            \/ WorkerSeason(w, o)
            \/ WorkerLogos1(w, o)
            \/ WorkerLogos2(w, o)
            \/ WorkerVideos(w, o)
            \/ WorkerCast(w, o)
            \/ WorkerTranslations(w, o)
        \/ WorkerStoreError(w)
        \/ WorkerCommit(w)
        \/ WorkerFinally(w)

SpecFallback == Init /\ [][NextFallback]_vars

\* ------------------------------------------------------------------------
\* APIServer.app_browse (server.py 811-954) behind its route in do_GET
\* (server.py 245-260)
\* ------------------------------------------------------------------------

\* the keys of BROWSE_TABS (constants.py 22-45)
BROWSE_TABS ==
    {"popular", "rating", "recent", "action", "adventure", "animation", "comedy",
     "crime", "documentary", "drama", "family", "fantasy", "history", "horror",
     "music", "mystery", "romance", "science-fiction", "tv-movie", "thriller",
     "war", "western"}

\* the largest value sqlite3 binds as an INTEGER: 2^63 - 1 in the build, here
\* 2^SqliteIntBits - 1 so that the model's integers can hold it
sqlite_max_int == 2 ^ SqliteIntBits - 1

\* the last page whose offset can be bound, and the pages around the edges
LastBindablePage == sqlite_max_int \div page_size + 1

BrowsePages == {-1, 0, 1, 2, 3, LastBindablePage, LastBindablePage + 1}

\* what the tab's ordered query yields without LIMIT and OFFSET: n rows, named
\* by their rank
BrowseSizes == {0, 1, page_size - 1, page_size, page_size + 1, 2 * page_size,
                2 * page_size + 1, 2 * page_size + 2}

Ranked(n) == [i \in 1..n |-> i]

\* ... LIMIT ? OFFSET ? bound to (limit, offset)
LimitOffset(rows, limit, offset) ==
    SubSeq(rows, offset + 1, Min(Len(rows), offset + limit))

\* what do_GET sends for /v1/browse/{tab}/{page}; code 0 stands for the
\* exception that leaves do_GET without a response
BrowseAnswer(code, has_more, items) ==
    [f |-> "app_browse", code |-> code, page_size |-> page_size, has_more |-> has_more,
     items |-> items]

\* app_browse: both the genre join and the union query end in LIMIT ? OFFSET ?
\* with limit = page_size + 1 and offset = (page - 1) * page_size and are cut
\* the same way; con.execute raises OverflowError for a parameter that does
\* not fit an INTEGER
app_browse(tab, page, n) ==
    LET limit == page_size + 1
        offset == (page - 1) * page_size
        rows == LimitOffset(Ranked(n), limit, offset)
    IN IF page < 1 THEN BrowseAnswer(404, FALSE, <<>>)
       ELSE IF tab \notin BROWSE_TABS THEN BrowseAnswer(404, FALSE, <<>>)
       ELSE IF offset > sqlite_max_int THEN BrowseAnswer(0, FALSE, <<>>)
       ELSE BrowseAnswer(200, Len(rows) > page_size,
                         SubSeq(rows, 1, Min(Len(rows), page_size)))

BrowseCalls ==
    [f : {"app_browse"}, tab : {"popular", "rating", "recent", "drama", "western", "nope"},
     page : BrowsePages, n : BrowseSizes]

AppBrowse ==
    /\ fn_arg.f = "app_browse"
    /\ fn_res = NoCall
    /\ fn_res' = app_browse(fn_arg.tab, fn_arg.page, fn_arg.n)
    /\ UNCHANGED <<fn_arg, fn_rest>>

InitBrowse == InitFn(BrowseCalls)

SpecBrowse == InitBrowse /\ [][AppBrowse]_vars

\* ------------------------------------------------------------------------
\* APIServer.app_home: providers and series_on (server.py 458-470, 577-586)
\* ------------------------------------------------------------------------

\* constants.py 1
PROVIDERS == <<"Netflix", "Prime", "Max", "Disney+", "AppleTV", "Paramount">>

\* constants.py 3-10
PROVIDER_NEEDLES ==
    [p \in {"Netflix", "Prime", "Max", "Disney+", "AppleTV", "Paramount"} |->
        CASE p = "Disney+" -> {"Disney+", "Disney"}
          [] p = "AppleTV" -> {"Apple TV", "AppleTV", "Apple TV+"}
          [] p = "Paramount" -> {"Paramount", "Paramount+"}
          [] OTHER -> {p}]

\* the values of series.networks in the stores looked at (None: NULL)
NetworkTexts ==
    {None, "", "Netflix", "HBO Max", "Disney Channel", "Apple TV+", "Cinemax, Prime Video"}

\* COALESCE(networks,'') LIKE '%needle%': the needle occurs in the text, letter
\* case ignored
Like(text, needle) ==
    CASE text = "Netflix" -> needle = "Netflix"
      [] text = "HBO Max" -> needle = "Max"
      [] text = "Disney Channel" -> needle = "Disney"
      [] text = "Apple TV+" -> needle \in {"Apple TV", "Apple TV+"}
      [] text = "Cinemax, Prime Video" -> needle \in {"Max", "Prime"}
      [] OTHER -> FALSE

\* ORDER BY COALESCE(popularity,0) DESC LIMIT 18, each row made a card: the
\* ids, most popular first
RECURSIVE series_cards(_)
series_cards(rows) ==
    IF rows = {} THEN <<>>
    ELSE LET top == CHOOSE r \in rows : \A q \in rows : q.popularity <= r.popularity
             rest == series_cards(rows \ {top})
         IN SubSeq(<<top.id>> \o rest, 1, Min(18, Cardinality(rows)))

\* the providers a key is made for: the loop over PROVIDERS, only up to the
\* first provider without a match
ProviderKeys_UntilNoMatch(series) ==
    {PROVIDERS[i] : i \in {j \in 1..Len(PROVIDERS) :
        \A k \in 1..j : \E r \in series : \E n \in PROVIDER_NEEDLES[PROVIDERS[k]] :
            Like(r.networks, n)}}

\* the providers a key is made for: `for p in PROVIDERS` in either branch
ProviderKeys(series) == {PROVIDERS[i] : i \in 1..Len(PROVIDERS)}

\* series_on = {}; then one key per provider, with the matching series when
\* the series table has a networks column, with [] otherwise
series_on(networks_col, series) ==
    [p \in ProviderKeys(series) |->
        IF networks_col
        THEN series_cards({r \in series : \E n \in PROVIDER_NEEDLES[p] : Like(r.networks, n)})
        ELSE <<>>]

\* the two fields of the home document
app_home(networks_col, series) ==
    [f |-> "app_home", providers |-> PROVIDERS, series_on |-> series_on(networks_col, series)]

SeriesRows(id) == [id : {id}, popularity : {10 * id}, networks : NetworkTexts]

HomeCalls ==
    {[f |-> "app_home", networks_col |-> c, series |-> a \cup b] :
        c \in BOOLEAN,
        a \in {{}} \cup {{r} : r \in SeriesRows(1)},
        b \in {{}} \cup {{r} : r \in SeriesRows(2)}}

AppHome ==
    /\ fn_arg.f = "app_home"
    /\ fn_res = NoCall
    /\ fn_res' = app_home(fn_arg.networks_col, fn_arg.series)
    /\ UNCHANGED <<fn_arg, fn_rest>>

InitHome == InitFn(HomeCalls)

SpecHome == InitHome /\ [][AppHome]_vars

\* ------------------------------------------------------------------------
\* The cards of home, browse and search: App._card_from_row (app.py 659-703),
\* tmdb_card of app_home (server.py 354-384), App._enrich_card (app.py
\* 768-811) and the dict literals of the genre, browse and search loops
\* ------------------------------------------------------------------------

\* an overview longer than 240 characters, and what is kept of it
LongText == "long"
CutText == "long[:240]..."

\* description = (s[:240] + "...") if len(s) > 240 else (s or None)
Describe(s) == IF s = LongText THEN CutText ELSE IF s \in {None, ""} THEN None ELSE s

\* card[k] = v on a dict: the key is added when absent
SetKey(card, k, v) == [x \in DOMAIN card \cup {k} |-> IF x = k THEN v ELSE card[x]]

\* card.get(k)
GetKey(card, k) == IF k \in DOMAIN card THEN card[k] ELSE None

\* the row as the store has it, with the columns under the names of the
\* table instead of the names of the card
card_from_row_Columns(media_type, r, with_description) ==
    [id |-> r.id, kind |-> IF media_type = "movie" THEN "movie" ELSE "series",
     title |-> Or(r.t_title, Or(r.name, "")),
     overview |-> IF with_description THEN Describe(Or(r.t_over, Or(r.overview, ""))) ELSE None,
     release_date |-> r.year, vote_average |-> r.rating, poster_path |-> r.poster,
     logos_json |-> Or(r.logo, r.poster), backdrop_path |-> r.backdrop]

\* _card_from_row: the same nine keys in both branches
card_from_row(media_type, r, with_description) ==
    [id |-> r.id, kind |-> IF media_type = "movie" THEN "movie" ELSE "series",
     name |-> Or(r.t_title, Or(r.name, "")),
     description |-> IF with_description THEN Describe(Or(r.t_over, Or(r.overview, ""))) ELSE None,
     year |-> r.year, rating |-> r.rating, poster |-> r.poster,
     logo |-> Or(r.logo, r.poster), backdrop |-> r.backdrop]

\* tmdb_card: a Provider item of media_type movie or tv (the caller kept no
\* other); logo is the poster
tmdb_card(media_type, it) ==
    [id |-> it.id, kind |-> IF media_type = "movie" THEN "movie" ELSE "series",
     name |-> Or(it.name, ""), description |-> Describe(Or(it.overview, "")),
     year |-> it.year, rating |-> it.rating, poster |-> it.poster,
     logo |-> it.poster, backdrop |-> it.backdrop]

\* the dict literal of the genre, browse and search loops: no description
list_card(media_type, r) ==
    [id |-> r.id, kind |-> IF media_type = "movie" THEN "movie" ELSE "series",
     name |-> Or(r.t_title, Or(r.name, "")),
     year |-> r.year, rating |-> r.rating, poster |-> r.poster,
     logo |-> Or(r.logo, r.poster), backdrop |-> r.backdrop]

\* _enrich_card with the local row r of the title, NoRow when the SELECT
\* finds none
NoRow == [id |-> 0]

enrich_card(card, r) ==
    LET named == IF Or(r.t_title, Or(r.name, "")) # ""
                 THEN SetKey(card, "name", Or(r.t_title, Or(r.name, ""))) ELSE card
        described == IF Or(GetKey(named, "description"), "") = ""
                     THEN SetKey(named, "description", Describe(Or(r.t_over, Or(r.overview, ""))))
                     ELSE named
        logoed == SetKey(described, "logo", Or(r.logo, GetKey(described, "logo")))
        local == IF GetKey(logoed, "backdrop") \in {None, ""}
                 THEN SetKey(logoed, "backdrop", r.backdrop) ELSE logoed
        c1 == IF r = NoRow THEN card ELSE local
        c2 == IF GetKey(c1, "logo") \in {None, ""} THEN SetKey(c1, "logo", GetKey(c1, "poster")) ELSE c1
    IN IF "backdrop" \notin DOMAIN c2 THEN SetKey(c2, "backdrop", None) ELSE c2

\* the rows and Provider items the cards are built from (year, rating 0: None)
CardRows ==
    [id : {7}, name : {None, "Base"}, overview : {None, "o", LongText}, year : {0, 2020},
     rating : {0, 7}, poster : {None, "/p.jpg"}, logo : {None, "/l.png"},
     backdrop : {None, "/b.jpg"}, t_title : {None, "T"}, t_over : {None}]

\* where a card comes from: a store row (home sections with and without
\* description), a Provider item enriched from the store or not, a row of the
\* genre, browse and search loops
CardCalls ==
    [f : {"card"}, via : {"row", "row_desc", "tmdb", "tmdb_local", "list"},
     mt : {"movie", "tv"}, r : CardRows]

card_of(a) ==
    CASE a.via = "row" -> card_from_row(a.mt, a.r, FALSE)
      [] a.via = "row_desc" -> card_from_row(a.mt, a.r, TRUE)
      [] a.via = "tmdb" -> enrich_card(tmdb_card(a.mt, a.r), NoRow)
      [] a.via = "tmdb_local" -> enrich_card(tmdb_card(a.mt, a.r), a.r)
      [] OTHER -> list_card(a.mt, a.r)

EmitCard ==
    /\ fn_arg.f = "card"
    /\ fn_res = NoCall
    /\ fn_res' = [f |-> "card", card |-> card_of(fn_arg)]
    /\ UNCHANGED <<fn_arg, fn_rest>>

InitCard == InitFn(CardCalls)

SpecCard == InitCard /\ [][EmitCard]_vars

\* ------------------------------------------------------------------------
\* APIServer.app_title: prefetch_season and prefetch_episodes of a series
\* (server.py 717-763), read from the rows that the backfill task
\* (_upsert_tmdb_tv_seasons_episodes) or the episode enricher
\* (get/enrich_episodes.py 190-270) stored
\* ------------------------------------------------------------------------

\* the numbers of a finite set, ascending
RECURSIVE Ascending(_)
Ascending(S) == IF S = {} THEN <<>> ELSE <<Least(S)>> \o Ascending(S \ {Least(S)})

SeasonNumbers(db, tid) == {x.sn : x \in {y \in db : y.tbl = "tv_seasons" /\ y.tid = tid}}

EpisodeRows(db, tid) == {y \in db : y.tbl = "tv_episodes" /\ y.tid = tid}

\* prefetch_season: 0 stands for None
PrefetchAnswer(sn, eps) == [f |-> "prefetch", prefetch_season |-> sn, prefetch_episodes |-> eps]

\* seasons is the tv_seasons rows ORDER BY season_number ASC; sn is the first
\* of them with a positive number, whether or not it has episode rows; only
\* without such a row sn is MIN(season_number) of the tv_episodes rows with a
\* positive season_number; the episodes are those of sn ORDER BY
\* episode_number ASC
prefetch(db, tid) ==
    LET listed == IF has_seasons THEN {n \in SeasonNumbers(db, tid) : n > 0} ELSE {}
        stored == {x.sn : x \in {y \in EpisodeRows(db, tid) : y.sn > 0}}
        sn == IF listed # {} THEN Least(listed)
              ELSE IF stored # {} THEN Least(stored) ELSE 0
    IN  IF ~has_episodes \/ sn = 0 THEN PrefetchAnswer(0, <<>>)
        ELSE PrefetchAnswer(sn, Ascending({x.en : x \in {y \in EpisodeRows(db, tid) : y.sn = sn}}))

\* the seasons array of /tv/{id}: up to MaxListed seasons, season 0 being the
\* specials, in the order the Provider lists them
ListedSeasons ==
    UNION {[1..n -> [sn : {0, 1, 2}, v : {1}]] : n \in 0..MaxListed}

\* the answers to /tv/{id}/season/{sn}
EpisodeAnswers ==
    {[ok |-> FALSE, episodes |-> <<>>],
     [ok |-> TRUE, episodes |-> <<>>],
     [ok |-> TRUE, episodes |-> <<[en |-> 2, v |-> 1], [en |-> 0, v |-> 1], [en |-> 1, v |-> 1]>>]}

\* the rows of the enricher part way through its run: a tv_seasons row for
\* every listed season, episode rows for the seasons fetched so far
EnricherStore(tid, seasons, done) ==
    {[URow("tv_seasons", "tv", tid) EXCEPT !.sn = seasons[i].sn, !.val = 1] :
        i \in 1..Len(seasons)} \cup
    {[URow("tv_episodes", "tv", tid) EXCEPT !.sn = n, !.en = e, !.val = 1] :
        n \in done, e \in {1, 2}}

\* the store app_title reads: after a full backfill of a series of which the
\* store held no season, or after the enricher
PrefetchCalls ==
    {[f |-> "prefetch", via |-> "backfill", seasons |-> l, season |-> a, fetched |-> {}] :
        l \in ListedSeasons, a \in EpisodeAnswers} \cup
    {[f |-> "prefetch", via |-> "enricher", seasons |-> l,
      season |-> [ok |-> FALSE, episodes |-> <<>>], fetched |-> e] :
        l \in {x \in ListedSeasons : Len(x) <= 2},
        e \in SUBSET {1, 2}}

StoreRead(a) ==
    IF a.via = "backfill"
    THEN upsert_tmdb_tv_seasons_episodes({}, 2, [ok |-> TRUE, v |-> 1, seasons |-> a.seasons],
                                         a.season)
    ELSE EnricherStore(2, a.seasons, {n \in a.fetched : \E i \in 1..Len(a.seasons) :
                                                            a.seasons[i].sn = n})

AppTitlePrefetch ==
    /\ fn_arg.f = "prefetch"
    /\ fn_res = NoCall
    /\ fn_res' = prefetch(StoreRead(fn_arg), 2)
    /\ UNCHANGED <<fn_arg, fn_rest>>

InitPrefetch == InitFn(PrefetchCalls)

SpecPrefetch == InitPrefetch /\ [][AppTitlePrefetch]_vars

\* ------------------------------------------------------------------------
\* App._missing_parts (app.py 173-228) called on its own
\* ------------------------------------------------------------------------

\* the rows of title 2 a store may hold; logos_json is a column of the base
\* row, so a store without the base row has no logos
DetectorRows(mt) ==
    {BaseRow(mt, 2), LogosRow(mt, 2), CastRow(mt, 2), VideoRow(mt, 2),
     TranslationRow(mt, 2, "de", "DE"), TranslationRow(mt, 2, "de", "AT"),
     SeasonRow(2), EpisodeRow(2)}

DetectorStores(mt) ==
    {db \in SUBSET DetectorRows(mt) : LogosRow(mt, 2) \in db => BaseRow(mt, 2) \in db}

DetectorCalls ==
    UNION {[f : {"missing_parts"}, db : DetectorStores(IF mt = "tv" THEN "tv" ELSE "movie"),
            key : BOOLEAN, mt : {mt}, tid : {0, 2}, iso639 : {"de"}, iso3166 : {None, "DE"},
            full : BOOLEAN] : mt \in {"movie", "tv", "person"}}

MissingParts ==
    /\ fn_arg.f = "missing_parts"
    /\ fn_res = NoCall
    /\ fn_res' = missing_parts(fn_arg.db, fn_arg.key, fn_arg.mt, fn_arg.tid, fn_arg.iso639,
                               fn_arg.iso3166, fn_arg.full)
    /\ UNCHANGED <<fn_arg, fn_rest>>

InitMissing == InitFn(DetectorCalls)

SpecMissing == InitMissing /\ [][MissingParts]_vars

\* ------------------------------------------------------------------------
\* The mutexes: every `with <lock>:` block of app.py and server.py, as the
\* instructions a thread runs, in the order of the source
\* ------------------------------------------------------------------------

Ins(o, m, d) == [op |-> o, m |-> m, d |-> d]

\* entering and leaving a `with m:` block
Lock(m) == Ins("lock", m, 0)

Unlock(m) == Ins("unlock", m, 0)

\* the three suspension points: a Provider call, a store query, time.sleep
ProviderCall == Ins("call", None, 0)

Query == Ins("query", None, 0)

Sleep == Ins("sleep", None, 0)

\* an if: the next instruction, or the one d further
Branch(d) == Ins("branch", None, d)

Goto(d) == Ins("goto", None, d)

Optional(p) == <<Branch(Len(p) + 1)>> \o p

\* a for loop whose body p runs any number of times
ForEach(p) == <<Branch(Len(p) + 2)>> \o p \o <<Goto(-(Len(p) + 1))>>

\* a bucket that sleeps with its lock still held
acquire_SleepLocked(b) == <<Lock(b), Branch(2), Sleep, Unlock(b)>>

\* _TokenBucket.acquire: the with block, then return or sleep and loop
acquire(b) == <<Lock(b), Unlock(b), Branch(3), Sleep, Goto(-4)>>

\* App._tmdb_open: a token, the opener made once under tmdb_init_lock, the call
tmdb_open_locks(b) ==
    acquire(b) \o Optional(<<Lock("tmdb_init_lock"), Unlock("tmdb_init_lock")>>)
               \o <<ProviderCall>>

missing_parts_locks == <<Query>>

\* App._schedule_backfill: recent and inflight under backfill_lock, then submit
schedule_backfill_locks == <<Lock("backfill_lock"), Unlock("backfill_lock")>>

\* App._enrich_card: the detector, the scheduling, the row
enrich_card_locks == missing_parts_locks \o Optional(schedule_backfill_locks) \o <<Query>>

\* App._tmdb_trending: look up, fetch on a miss, reinsert
tmdb_trending_locks ==
    <<Lock("trending_lock"), Unlock("trending_lock")>>
    \o Optional(tmdb_open_locks("fg.lock")
                \o Optional(<<Lock("trending_lock"), Unlock("trending_lock")>>))

\* App._tmdb_similar: look up, fetch on a miss, enrich the cards, reinsert
tmdb_similar_locks ==
    <<Lock("similar_lock"), Unlock("similar_lock")>>
    \o Optional(tmdb_open_locks("fg.lock")
                \o Optional(ForEach(enrich_card_locks)
                            \o <<Lock("similar_lock"), Unlock("similar_lock")>>))

\* S.app_home: look up, compose on a miss from the store and trending, reinsert
app_home_locks ==
    <<Lock("home_lock"), Unlock("home_lock")>>
    \o Optional(<<Query>>
                \o tmdb_trending_locks \o ForEach(enrich_card_locks)
                \o tmdb_trending_locks \o ForEach(enrich_card_locks)
                \o <<Query>>
                \o <<Lock("home_lock"), Unlock("home_lock")>>)

\* S.app_home_bytes: look up, on a miss app_home and the encodings, reinsert
app_home_bytes_locks ==
    <<Lock("home_lock"), Unlock("home_lock")>>
    \o Optional(app_home_locks \o <<Lock("home_lock"), Unlock("home_lock")>>)

\* S.app_title: the row, for an unknown id the Provider and the upsert, the
\* detector and scheduling, the parts of the answer, the similar titles
app_title_locks ==
    <<Query>> \o Optional(tmdb_open_locks("fg.lock") \o <<Query>>)
    \o missing_parts_locks \o Optional(schedule_backfill_locks)
    \o <<Query>> \o tmdb_similar_locks

\* H._rate_allow: the bucket of the address under _rl_lock
rate_allow_locks == <<Lock("_rl_lock"), Unlock("_rl_lock")>>

\* one part of a task: a Provider call on the background bucket and its upsert
task_part == Optional(tmdb_open_locks("bg.lock") \o <<Query>>)

\* run() of a backfill task: the detector, base, seasons, logos (two calls),
\* videos, cast, translations, and in finally the inflight key under backfill_lock
run_locks ==
    missing_parts_locks
    \o Optional(task_part \o task_part \o task_part \o task_part \o task_part \o task_part
                \o task_part)
    \o <<Lock("backfill_lock"), Unlock("backfill_lock")>>

LockPrograms == {"home", "title", "run"}

Program(p) ==
    CASE p = "home" -> rate_allow_locks \o app_home_bytes_locks
      [] p = "title" -> rate_allow_locks \o app_title_locks
      [] p = "run" -> run_locks
      [] OTHER -> <<>>

Running(t) == lth[t].prog # "none"

AtEnd(t) == Running(t) /\ lth[t].pc = Len(Program(lth[t].prog)) + 1

\* the instruction a thread is about to run
Instr(t) ==
    IF Running(t) /\ ~AtEnd(t) THEN Program(lth[t].prog)[lth[t].pc] ELSE Ins("none", None, 0)

Advance(t, d) == lth' = [lth EXCEPT ![t].pc = @ + d]

lock_rest ==
    <<clock, backfill_recent, backfill_inflight, queue, wk, rq, store, db_writer, tmdb_tls,
      env, call_vars, tmdb_fg_limiter, tmdb_bg_limiter, served, faults, submitted, acq_log,
      cast_vars, upsert_vars, locale_vars, translated_vars, cache_vars, rl_vars, fn_vars,
      detail_vars>>

\* a request thread or a pool thread starts its handler
LockBegin(t, p) ==
    /\ ~Running(t)
    /\ lth' = [lth EXCEPT ![t] = [prog |-> p, pc |-> 1]]
    /\ UNCHANGED <<mutex, lock_rest>>

\* Lock.__enter__: blocks while another thread (or this one) holds it
LockEnter(t) ==
    /\ Instr(t).op = "lock"
    /\ mutex[Instr(t).m] = None
    /\ mutex' = [mutex EXCEPT ![Instr(t).m] = t]
    /\ Advance(t, 1)
    /\ UNCHANGED lock_rest

\* Lock.__exit__, also on a return inside the block
LockExit(t) ==
    /\ Instr(t).op = "unlock"
    /\ mutex' = [mutex EXCEPT ![Instr(t).m] = None]
    /\ Advance(t, 1)
    /\ UNCHANGED lock_rest

\* the thread is suspended in a Provider call, a query or a sleep, and resumes
LockSuspend(t) ==
    /\ Instr(t).op \in {"call", "query", "sleep"}
    /\ Advance(t, 1)
    /\ UNCHANGED <<mutex, lock_rest>>

LockJump(t) ==
    /\ \/ Instr(t).op = "branch" /\ \E d \in {1, Instr(t).d} : Advance(t, d)
       \/ Instr(t).op = "goto" /\ Advance(t, Instr(t).d)
    /\ UNCHANGED <<mutex, lock_rest>>

LockEnd(t) ==
    /\ AtEnd(t)
    /\ lth' = [lth EXCEPT ![t] = IdleLockThread]
    /\ UNCHANGED <<mutex, lock_rest>>

InitLocks == Init

NextLocks ==
    \E t \in LockThreads :
        \/ \E p \in LockPrograms : LockBegin(t, p)
        \/ LockEnter(t)
        \/ LockExit(t)
        \/ LockSuspend(t)
        \/ LockJump(t)
        \/ LockEnd(t)

SpecLocks == InitLocks /\ [][NextLocks]_vars

\* ------------------------------------------------------------------------
\* The handlers with and without a Provider key (app.py 113-115, 148-150,
\* 173-175, 230-232; server.py 623-665)
\* ------------------------------------------------------------------------

\* what do_GET sends when app_title returns None: 404
NotFound == [sent |-> TRUE, kind |-> "not_found", prefetch_season |-> FALSE,
             prefetch_episodes |-> FALSE]

\* _enrich_card or app_title on a title of the store for which the detector
\* returns None, or _schedule_backfill returns at its first line: the handler
\* goes on to read the store
ReqLocalOnly(r, inp) ==
    /\ rq[r].pc = "idle"
    /\ served < MaxServed
    /\ served' = served + 1
    /\ inp.full => LocalKind(inp.tid) = inp.mt
    /\ \/ missing_parts(store, env.TMDB_API_KEY, inp.mt, inp.tid, inp.iso639, inp.iso3166,
                         inp.full) = NoMiss
       \/ ~ScheduleGuard(inp)
    /\ UNCHANGED <<clock, backfill_recent, backfill_inflight, queue, wk, rq, store, db_writer,
                   tmdb_tls, env, part_vars, call_vars, tmdb_fg_limiter, tmdb_bg_limiter,
                   submitted, acq_log, faults>>

\* app_title for an id in neither table when _tmdb_fetch_title_any returns
\* (None, None, None) for want of a key: `return None`, and do_GET sends 404
ReqTitleNotFound(r, t) ==
    /\ rq[r].pc = "idle"
    /\ served < MaxServed
    /\ served' = served + 1
    /\ LocalKind(t.tid) = None
    /\ ~FetchAnyGuard
    /\ title_out' = [title_out EXCEPT ![r] = NotFound]
    /\ UNCHANGED <<clock, backfill_recent, backfill_inflight, queue, wk, rq, store, db_writer,
                   tmdb_tls, env, detail_rest, call_vars, tmdb_fg_limiter, tmdb_bg_limiter,
                   submitted, acq_log, faults>>

KeyInputs ==
    CardInputs \cup {Inp(mt, t.tid, t.iso639, t.iso3166, TRUE) : mt \in MediaTypes, t \in TitleRequests}

InitKey == \E key \in BOOLEAN : InitWith([DefaultEnv EXCEPT !.TMDB_API_KEY = key])

NextKey ==
    \/ Next
    \/ \E r \in Requests :
          \/ \E inp \in KeyInputs : ReqLocalOnly(r, inp)
          \/ \E t \in TitleRequests : ReqTitleNotFound(r, t)

SpecKey == InitKey /\ [][NextKey]_vars

\* ------------------------------------------------------------------------
\* _TokenBucket.acquire (app.py 14-37) called concurrently on one bucket, the
\* callers followed until they return.  Time is in instants of 1/Unit second
\* and tokens in 1/Unit token as above; a thread is delayed by at most
\* MaxDelay instants between reading the time and taking the lock, and
\* oversleeps by at most as much.
\* ------------------------------------------------------------------------

\* _TokenBucket(rate, capacity=max(1.0, rate)) at 1 and at 3 requests per second
AcquireRates == {Unit, 3 * Unit}

\* long enough for every call to get its token
AcquireHorizon == EnterHorizon + MaxAcquires * (Unit + 2 * MaxDelay + 1)

InFlight == {th \in Requests : acq[th].pc # "idle"}

acquire_rest ==
    <<backfill_recent, backfill_inflight, queue, wk, rq, store, db_writer, faults, submitted,
      acq_log, granted, http, tmdb_tls, env, part_vars, tmdb_bg_limiter>>

\* acquire(1) is entered: rate > 0, now = time.time()
CallEnter(th) ==
    /\ acq[th].pc = "idle"
    /\ tmdb_fg_limiter.rate > 0
    /\ clock <= EnterHorizon
    /\ served + Cardinality(InFlight) < MaxAcquires
    /\ acq' = [acq EXCEPT ![th] = [pc |-> "locking", now |-> clock, wake |-> 0]]
    /\ UNCHANGED <<clock, served, tmdb_fg_limiter, acquire_rest>>

\* with self.lock: the refill up to `now`, then the token and return, or need
CallLocked(th) ==
    LET b == Refilled(tmdb_fg_limiter, acq[th].now)
    IN  /\ acq[th].pc = "locking"
        /\ IF b.tokens >= Unit
           THEN /\ tmdb_fg_limiter' = [b EXCEPT !.tokens = @ - Unit]
                /\ served' = served + 1
                /\ acq' = [acq EXCEPT ![th] = IdleAcq]
           ELSE /\ tmdb_fg_limiter' = b
                /\ UNCHANGED served
                /\ acq' = [acq EXCEPT ![th] = [pc |-> "sleeping", now |-> acq[th].now,
                                               wake |-> clock + SleepNeed(b)]]
        /\ UNCHANGED <<clock, acquire_rest>>

\* time.sleep(need) returns, and the loop reads the time again
CallWake(th) ==
    /\ acq[th].pc = "sleeping"
    /\ clock >= acq[th].wake
    /\ acq' = [acq EXCEPT ![th] = [pc |-> "locking", now |-> clock, wake |-> 0]]
    /\ UNCHANGED <<clock, served, tmdb_fg_limiter, acquire_rest>>

\* an instant passes
CallTick ==
    /\ clock < AcquireHorizon
    /\ clock < EnterHorizon \/ InFlight # {}
    /\ \A th \in Requests :
          /\ acq[th].pc = "locking" => clock - acq[th].now < MaxDelay
          /\ acq[th].pc = "sleeping" => clock - acq[th].wake < MaxDelay
    /\ clock' = clock + 1
    /\ UNCHANGED <<acq, served, tmdb_fg_limiter, acquire_rest>>

InitAcquire ==
    /\ clock = 0
    /\ BackfillIdle
    /\ PartsIdle
    /\ acq = [t \in Threads |-> IF t \in Requests THEN IdleAcq ELSE NoCaller]
    /\ granted = [b \in Buckets |-> [i \in Instants |-> 0]]
    /\ http = IdleHttp
    /\ tmdb_tls = [t \in Threads |-> FALSE]
    /\ env = DefaultEnv
    /\ \E rate \in AcquireRates : tmdb_fg_limiter = TokenBucket(rate, BucketCapacity(rate), 0)
    /\ tmdb_bg_limiter = NoBucket

NextAcquire ==
    \/ CallTick
    \/ \E th \in Requests :
          \/ CallEnter(th)
          \/ CallLocked(th)
          \/ CallWake(th)

\* the threads run and the clock goes on
SpecAcquire ==
    /\ InitAcquire
    /\ [][NextAcquire]_vars
    /\ WF_vars(CallTick)
    /\ \A th \in Requests : WF_vars(CallLocked(th)) /\ WF_vars(CallWake(th))

\* ------------------------------------------------------------------------
\* Claims
\* ------------------------------------------------------------------------

\* the keys of the tasks queued in the executor or running on a pool thread
QueuedOrRunning ==
    {Key(queue[i]) : i \in 1..Len(queue)} \cup
    {Key(wk[w].inp) : w \in {x \in Workers : wk[x].pc # "idle"}}

\* C1: backfill dedup.  The tasks submitted for one key carry stamps at least
\* BACKFILL_TTL apart, and after a call recorded recent[key] no task is
\* submitted for that key with a stamp less than BACKFILL_TTL later: any
\* window shorter than BACKFILL_TTL holds at most one submission per key.
C1_BackfillDedup ==
    \A k \in Keys : \A i \in 1..Len(submitted[k]) :
        /\ \A j \in 1..Len(submitted[k]) :
              i < j => submitted[k][j] - submitted[k][i] >= backfill_ttl_s
        /\ \/ backfill_recent[k] = submitted[k][i]
           \/ backfill_recent[k] - submitted[k][i] >= backfill_ttl_s

\* C1 witness: a task was submitted for a key and a second call for the same
\* key, stamped later but inside the TTL, is at the lock and will be dropped
C1_Witness ==
    \E r \in Requests :
        /\ rq[r].pc = "stamped"
        /\ Len(submitted[Key(rq[r].inp)]) = 1
        /\ rq[r].now > submitted[Key(rq[r].inp)][1]
        /\ rq[r].now - submitted[Key(rq[r].inp)][1] < backfill_ttl_s

\* a step in which handler r runs _schedule_backfill's locked body
ScheduleStep(r) == rq[r].pc = "stamped" /\ rq'[r].pc = "idle"

NoFreshEntry(k, now) ==
    backfill_recent[k] = 0 \/ now - backfill_recent[k] >= backfill_ttl_s

\* C2 as stated: a call for a key with no recent entry younger than the TTL
\* submits exactly one task, whatever inflight holds
C2_ExactlyOnce_AsStated ==
    [][\A r \in Requests :
         (ScheduleStep(r) /\ NoFreshEntry(Key(rq[r].inp), rq[r].now))
            => Len(submitted'[Key(rq[r].inp)]) = Len(submitted[Key(rq[r].inp)]) + 1]_vars

\* C2 amended: such a call records recent[key]; it submits exactly one task
\* when inflight is below the limit and does not hold the key, and none
\* otherwise; a call that finds a fresh entry changes nothing
C2_ExactlyOnceUnlessDropped ==
    [][\A r \in Requests :
         LET k == Key(rq[r].inp)
             drop == \/ Cardinality(backfill_inflight) >= backfill_queue_limit
                     \/ k \in backfill_inflight
         IN  ScheduleStep(r) =>
               IF NoFreshEntry(k, rq[r].now)
               THEN /\ backfill_recent'[k] = rq[r].now
                    /\ IF drop
                       THEN submitted' = submitted /\ queue' = queue
                       ELSE /\ submitted'[k] = Append(submitted[k], rq[r].now)
                            /\ Len(queue') = Len(queue) + 1
                            /\ k \in backfill_inflight'
               ELSE /\ submitted' = submitted /\ queue' = queue
                    /\ backfill_recent' = backfill_recent]_vars

\* C2 witness: a key whose recent entry was recorded by a call that submitted
\* nothing
C2_Witness ==
    \E k \in Keys : backfill_recent[k] # 0 /\ submitted[k] = <<>>

\* C3: inflight never holds more than BACKFILL_QUEUE_LIMIT keys, and from a
\* state in which it is at the limit no step inserts a key or queues a task
C3_InflightCapped ==
    /\ [](Cardinality(backfill_inflight) <= backfill_queue_limit)
    /\ [][Cardinality(backfill_inflight) >= backfill_queue_limit
            => /\ backfill_inflight' \subseteq backfill_inflight
               /\ Len(queue') <= Len(queue)]_vars

\* C3 witness: inflight is at the limit and a key that was never submitted has
\* a recent entry: its call found inflight full
C3_Witness ==
    /\ Cardinality(backfill_inflight) = backfill_queue_limit
    /\ \E k \in Keys \ backfill_inflight :
          backfill_recent[k] # 0 /\ submitted[k] = <<>>

\* C4 as stated: inflight always equals the set of keys whose task is queued
\* or running (so every inserted key is discarded when its task ends)
C4_InflightIsQueuedOrRunning == backfill_inflight = QueuedOrRunning

\* C5 as stated: no handler waits for a lock that a worker holds while that
\* worker is performing or waiting for a Provider call
C5_NoHandlerWaitsOnWorker ==
    ~\E r \in Requests, w \in Workers :
        /\ rq[r].pc = "upsert"
        /\ db_writer = w
        /\ wk[w].pc \in CallPcs

\* C6 as stated: every request takes exactly one token, a worker's from the
\* background bucket and a request-path call's from the foreground bucket
C6_OneToken_AsStated ==
    \A a \in acq_log :
        /\ a.tokens = 1
        /\ a.by = "worker" => a.bucket = "bg"
        /\ a.by = "request" => a.bucket = "fg"

\* C6 amended: every request makes one acquire(1) on one bucket, which takes
\* one token when that bucket's rate is positive and none otherwise; a worker
\* uses the background bucket when one was built and the foreground bucket
\* otherwise; the request path uses the foreground bucket; no handler thread
\* ever carries the background flag
C6_OneAcquirePerRequest ==
    /\ \A a \in acq_log :
          /\ a.by = "request" => a.bucket = "fg"
          /\ a.by = "worker" =>
                a.bucket = IF tmdb_bg_limiter.rate > 0 THEN "bg" ELSE "fg"
          /\ a.tokens = IF (IF a.bucket = "bg" THEN tmdb_bg_limiter.rate
                                               ELSE tmdb_fg_limiter.rate) > 0
                        THEN 1 ELSE 0
    /\ \A r \in Requests : ~tmdb_tls[r]

\* C6 witness: a worker and a handler have both sent a request, the worker's
\* with its flag set and no background bucket built
C6_Witness ==
    /\ tmdb_bg_limiter = NoBucket
    /\ \E a \in acq_log : a.by = "worker"
    /\ \E a \in acq_log : a.by = "request"

\* the buckets of App.__init__ have been built
Built == tmdb_fg_limiter # NoBucket

\* C7 as stated: for every R and configured fg, fg = min(configured, R-1) and
\* bg = max(0, R-fg), each bucket with capacity max(1, rate), and fg + bg <= R
C7_Rates_AsStated ==
    Built =>
        /\ tmdb_fg_limiter.rate = Min(env.TMDB_RPS_FOREGROUND, env.TMDB_RPS - Unit)
        /\ tmdb_bg_limiter.rate = Max(0, env.TMDB_RPS - tmdb_fg_limiter.rate)
        /\ tmdb_fg_limiter.capacity = Max(Unit, tmdb_fg_limiter.rate)
        /\ tmdb_bg_limiter.capacity = Max(Unit, tmdb_bg_limiter.rate)
        /\ tmdb_fg_limiter.rate + tmdb_bg_limiter.rate <= env.TMDB_RPS

\* C7 amended: for R > 1, fg = min(configured, R-1) and a background bucket of
\* rate bg = R - fg >= 1 is built; for R <= 1, fg = R and no background bucket
\* is built (bg = 0).  Every bucket built has capacity max(1, rate), and
\* fg + bg = R.
C7_RatesBySize ==
    Built =>
        /\ IF env.TMDB_RPS > Unit
           THEN /\ tmdb_fg_limiter.rate = Min(env.TMDB_RPS_FOREGROUND, env.TMDB_RPS - Unit)
                /\ tmdb_bg_limiter # NoBucket
                /\ tmdb_bg_limiter.rate = env.TMDB_RPS - tmdb_fg_limiter.rate
                /\ tmdb_bg_limiter.rate >= Unit
                /\ tmdb_bg_limiter.capacity = tmdb_bg_limiter.rate
                /\ tmdb_bg_limiter.tokens = tmdb_bg_limiter.capacity
           ELSE /\ tmdb_fg_limiter.rate = env.TMDB_RPS
                /\ tmdb_bg_limiter = NoBucket
        /\ tmdb_fg_limiter.capacity = Max(Unit, tmdb_fg_limiter.rate)
        /\ tmdb_fg_limiter.tokens = tmdb_fg_limiter.capacity
        /\ tmdb_fg_limiter.rate + tmdb_bg_limiter.rate = env.TMDB_RPS

\* C7 witness: the buckets built for a total rate of exactly 1 with a larger
\* configured foreground rate: the foreground bucket has the whole rate
C7_Witness ==
    /\ Built
    /\ env.TMDB_RPS = Unit
    /\ env.TMDB_RPS_FOREGROUND > Unit
    /\ tmdb_fg_limiter.rate = Unit
    /\ tmdb_bg_limiter = NoBucket

\* the tokens granted by a bucket at the instants s..e
RECURSIVE GrantsIn(_, _, _)
GrantsIn(name, s, e) ==
    IF s > e THEN 0 ELSE granted[name][e] + GrantsIn(name, s, e - 1)

FailedAttempt(resp) ==
    resp.kind # "http" \/ resp.status = 429 \/ resp.status \in 500..599

CallDone(fn) == http.fn = fn /\ http.phase = "done"

LastSeen == http.seen[Len(http.seen)]

C10_GetJsonNeverRaises ==
    CallDone("app") =>
        /\ ~http.result.raised
        /\ http.result.data # None <=>
              /\ env.TMDB_API_KEY
              /\ http.seen # <<>>
              /\ LastSeen.kind = "http"
              /\ LastSeen.status = 200
              /\ LastSeen.body = "object"
        /\ http.result.data # None => http.result.st = 200

\* C10 witness: a 200 answer whose body does not parse ends in the pair
\* (none, none)
C10_Witness ==
    /\ CallDone("app")
    /\ http.seen = <<Answer(200, "invalid", 0 - 1)>>
    /\ http.result = Returned(NoStatus, None)

\* C11 as stated: once a fetch step of a task has met a Provider error the
\* task attempts nothing more: it is on its way out
C11_ErrorEndsTask_AsStated ==
    \A w \in Workers : wk[w].err # None => wk[w].pc = "finally"

\* C11 amended: a Provider error on the base fetch ends the task; a Provider
\* error on a later step (season, logos, videos, cast, translations) only
\* skips that step's upsert and the task goes on with the steps after it;
\* the steps of a task are taken in order, none twice
C11_BaseErrorEndsTask ==
    /\ [](\A w \in Workers :
            wk[w].err # None =>
                IF wk[w].err = "call_base"
                THEN wk[w].pc = "finally"
                ELSE StepRank(wk[w].pc) > StepRank(wk[w].err))
    /\ [][\A w \in Workers :
            (wk'[w].pc # wk[w].pc /\ wk[w].pc # "finally")
                => StepRank(wk'[w].pc) > StepRank(wk[w].pc)]_vars

\* C11 witness: a task whose Provider failed at a step after the base fetch is
\* about to send its next fetch
C11_Witness ==
    \E w \in Workers :
        /\ wk[w].err \in CallPcs \ {"call_base"}
        /\ wk[w].pc \in CallPcs

\* a step of handler r that submits a task for its key
Submits(r) ==
    ScheduleStep(r) /\ submitted'[Key(rq[r].inp)] # submitted[Key(rq[r].inp)]

\* C12: recent[key] is written before the outcome of the task is known and
\* nothing the task does takes it back.  A call that passes the TTL test
\* writes recent[key] whether its task is accepted or dropped; no step of a
\* worker, failing or not, changes recent; recent[key] is never older than a
\* submission for the key; and a task is submitted only by a call whose stamp
\* is at least BACKFILL_TTL after recent[key].  So after a task failed or was
\* dropped, calls stamped inside the TTL submit nothing, however many there are.
C12_NoResubmitInsideTtl ==
    /\ [](\A k \in Keys : \A i \in 1..Len(submitted[k]) :
              backfill_recent[k] >= submitted[k][i])
    /\ [][\A r \in Requests :
            LET k == Key(rq[r].inp)
                t0 == backfill_recent[k]
            IN  /\ Submits(r) => (t0 = 0 \/ rq[r].now - t0 >= backfill_ttl_s)
                /\ (ScheduleStep(r) /\ (t0 = 0 \/ rq[r].now - t0 >= backfill_ttl_s))
                      => backfill_recent'[k] = rq[r].now]_vars
    /\ [][wk' # wk => backfill_recent' = backfill_recent]_vars

\* C12 witness: the one task submitted for a key has ended without a commit
\* (the store is as it was, the key has left inflight, the pool is idle), and
\* a later call for the same key, stamped inside the TTL, is at the lock
C12_Witness ==
    \E r \in Requests :
        LET k == Key(rq[r].inp)
        IN  /\ rq[r].pc = "stamped"
            /\ Len(submitted[k]) = 1
            /\ backfill_recent[k] = submitted[k][1]
            /\ rq[r].now > backfill_recent[k]
            /\ rq[r].now - backfill_recent[k] < backfill_ttl_s
            /\ k \notin backfill_inflight
            /\ queue = <<>>
            /\ \A w \in Workers : wk[w].pc = "idle"
            /\ store = InitStore

\* C13: the writes of a worker task reach the committed store in one step,
\* the commit at the end of run().  Every step of a task other than its
\* commit leaves the committed rows as they are (so a task that returns early
\* or raises before the commit changes nothing), and the commit step replaces
\* them by the rows with every delete and every insert of the task applied,
\* or, when it raises (a store fault), leaves them as they are.
C13_SingleCommit ==
    [][\A w \in Workers :
         wk'[w] # wk[w] =>
            IF wk[w].pc = "commit"
            THEN \/ /\ faults' = faults
                    /\ store' = (store \ wk[w].tx.del) \cup wk[w].tx.add
                 \/ /\ faults' # faults
                    /\ store' = store
            ELSE store' = store]_vars

\* C13 witness: a task stands before its commit with several upserts none of
\* which is committed yet, while a handler is at work
C13_Witness ==
    \E w \in Workers :
        /\ wk[w].pc = "commit"
        /\ Cardinality(wk[w].tx.add) >= 2
        /\ wk[w].tx.del # {}
        /\ wk[w].tx.add \cap store = {}
        /\ \E r \in Requests : rq[r].pc # "idle"

\* the rows a committed refresh leaves: the valid ones among the first
\* 24 entries of the answer
FullSet(resp) ==
    {[credit_id |-> i, ver |-> resp.ver] :
        i \in {j \in 1..resp.n : j <= 24 /\ ~(resp.bad /\ j = 1)}}

\* the sets a title may have as a whole: none, or the full set of an answer
WholeSets == {{}} \cup {FullSet(resp) : resp \in Credits}

\* C14: the committed cast rows of the title are always a whole set, the one
\* the title had before or the full set of a refresh, never the rows of a
\* refresh under way (after its DELETE, between two INSERTs); what a reader
\* gets is the committed set; the committed set becomes empty only by the
\* commit of a refresh whose answer holds no valid entry; and neither the
\* committed rows nor the rows read are ever more than 24
C14_CastAtomic ==
    /\ [](/\ title_cast \in WholeSets
          /\ cast_seen \in WholeSets
          /\ Cardinality(title_cast) <= 24
          /\ Cardinality(cast_seen) <= 24)
    /\ [][cast_seen' # cast_seen => cast_seen' = title_cast]_vars
    /\ [][title_cast' # title_cast =>
            \E t \in CastTasks :
                /\ ct[t].pc = "commit"
                /\ ct[t].del
                /\ title_cast' = FullSet(ct[t].resp)]_vars

\* C14 witness: a reader holds the full set of an answer of more than 24
\* entries while a second task, past its DELETE, has inserted part of another
C14_Witness ==
    \E t \in CastTasks :
        /\ ct[t].pc = "insert"
        /\ ct[t].add # {}
        /\ ct[t].i <= ct[t].resp.n
        /\ Cardinality(cast_seen) = 24
        /\ cast_seen = title_cast
        /\ \A x \in cast_seen : x.ver # ct[t].resp.ver

\* at most one row per key tuple
UniqueKeys(db) == \A x \in db : \A y \in db : KeyTuple(x) = KeyTuple(y) => x = y

\* C15: a task applied a second time with the same answers of the Provider
\* leaves the rows the first application left, and the store never holds two
\* rows with the same key tuple
C15_UpsertIdempotent ==
    /\ UniqueKeys(udb)
    /\ uapplied = 2 => udb = uonce

\* C15 witness: a task has run twice whose answers name a season, an episode
\* and a translation twice with different values; the later value is stored
C15_Witness ==
    /\ uapplied = 2
    /\ \E x \in udb : x.tbl = "tv_seasons" /\ x.sn = 2 /\ x.val = 2
    /\ \E x \in udb : x.tbl = "tv_episodes" /\ x.en = 1 /\ x.val = 2
    /\ \E x \in udb : x.tbl = "title_translations" /\ x.region = "DE" /\ x.val = 3
    /\ \E x \in udb : x.tbl = "title_cast"

\* C16: no id has a row in movies and a row in series
C16_MovieXorSeries ==
    \A tid \in Ids : ~(BaseRow("movie", tid) \in store /\ BaseRow("tv", tid) \in store)

\* C17 as stated: whenever the lang parameter is not empty, the result is the
\* tag it spells
C17_QueryWins_AsStated ==
    (lout.done /\ lq # <<>>) => lout.loc = split_lang(lq)

\* C17 amended: a lang parameter that is not blank (not empty once trimmed)
\* gives the result, whatever the header; a blank or absent one leaves it to
\* the first comma-separated tag of the header, cut at its first semicolon;
\* with no header either the result is ("en", none).  The language is never
\* empty and has no upper-case letter, the region has no lower-case letter.
C17_LocalePrecedence ==
    lout.done =>
        /\ Strip(lq) # <<>> => lout.loc = split_lang(lq)
        /\ (Strip(lq) = <<>> /\ lh.present /\ lh.val # <<>>)
              => lout.loc = split_lang(BeforeFirst(BeforeFirst(lh.val, ","), ";"))
        /\ (Strip(lq) = <<>> /\ (~lh.present \/ lh.val = <<>>))
              => lout.loc = Locale(<<"e", "n">>, FALSE, <<>>)
        /\ lout.loc.iso639 # <<>>
        /\ \A i \in 1..Len(lout.loc.iso639) : lout.loc.iso639[i] \notin {"D", "E"}
        /\ \A i \in 1..Len(lout.loc.iso3166) : lout.loc.iso3166[i] \notin {"d", "e"}
        /\ lout.loc.region = (lout.loc.iso3166 # <<>>)

\* C17 witness: the parameter E_d with a header naming d gave ("e", "D")
C17_Witness ==
    /\ lout.done
    /\ lq = <<"E", "_", "d">>
    /\ lh = [present |-> TRUE, val |-> <<"d", ";", " ">>]
    /\ lout.loc = Locale(<<"e">>, TRUE, <<"D">>)

\* C18: with a region, when the title has the row of exactly (lang, region),
\* its title and overview are returned; otherwise those of a row of the title
\* with the language, whatever its region; otherwise (none, none), and then
\* the name and the overview served are the base columns
C18_LocaleFallback ==
    LET mine == {x \in tr_rows : x.mt = tr_arg.mt /\ x.tid = tr_arg.tid}
        exact == {x \in mine : x.lang = tr_arg.iso639 /\ x.region = tr_arg.iso3166}
        samelang == {x \in mine : x.lang = tr_arg.iso639}
    IN  tr_out.done =>
          IF tr_arg.iso3166 # None /\ exact # {}
          THEN \E x \in exact : tr_out.title = x.title /\ tr_out.overview = x.overview
          ELSE IF samelang # {}
          THEN \E x \in samelang : tr_out.title = x.title /\ tr_out.overview = x.overview
          ELSE /\ tr_out.title = None /\ tr_out.overview = None
               /\ tr_out.name = "Base" /\ tr_out.description = "BaseOverview"

\* C18 witness: asked for (de, CH), the title has de-DE and de-AT but no
\* de-CH, and the row of de-AT was returned
C18_Witness ==
    /\ tr_out.done
    /\ tr_arg.iso639 = "de" /\ tr_arg.iso3166 = "CH"
    /\ \E x \in tr_rows : x.mt = "movie" /\ x.tid = 1 /\ x.lang = "de" /\ x.region = "DE"
    /\ tr_out.title = "T-de-AT"
    /\ tr_out.name = "T-de-AT"


\* C19: in every reachable state a home-cache entry that carries bytes is
\* self-consistent: its raw bytes are the serialization of the object stored
\* in the same entry, and its gzip and brotli bodies are compressions of those
\* raw bytes, whatever the interleaving of /v1/home and /v1/search requests.
C19_HomeEntryConsistent ==
    home_cache.n >= 5 =>
        /\ home_cache.raw = Ser(home_cache.obj)
        /\ home_cache.gz = Gzip(home_cache.raw)
        /\ home_cache.br \in BrCompress(home_cache.raw)


\* the entry a reader holding the stamp now would be given: it is there and
\* its age on that stamp is under the cache's TTL
Young(n, ts, now, ttl) == n >= 2 /\ now - ts < ttl

\* the thread t makes a step
Steps(t) == ch'[t] # ch[t]

\* app_home_bytes answers from the entry exactly when the entry carries bytes
\* younger than 90 minutes, and then with the stored bytes
BytesRead(t) ==
    (ch[t].pc = "b_check" /\ Steps(t)) =>
        IF home_cache.n >= 5 /\ Young(home_cache.n, home_cache.ts, ch[t].now, 90 * 60)
        THEN /\ sent' = [op |-> "home", how |-> "hit", obj |-> home_cache.obj,
                         raw |-> home_cache.raw, gz |-> home_cache.gz, br |-> home_cache.br]
             /\ ch'[t].pc = "idle"
        ELSE sent'.how # "hit" /\ ch'[t].pc = "h_enter"

\* app_home answers from the entry exactly when it is younger than 90 minutes,
\* and then with the stored object
ObjectRead(t) ==
    (ch[t].pc = "h_check" /\ Steps(t)) =>
        IF Young(home_cache.n, home_cache.ts, ch[t].now, 90 * 60)
        THEN IF ch[t].op = "search"
             THEN sent'.how = "hit" /\ sent'.obj = home_cache.obj /\ ch'[t].pc = "idle"
             ELSE ch'[t].obj = home_cache.obj /\ ch'[t].pc = "b_store"
        ELSE sent'.how # "hit" /\ ch'[t].pc = "h_compose"

\* _tmdb_similar and _tmdb_trending answer from the entry exactly when it is
\* younger than 3 days and 90 minutes, and then with the stored list
ListRead(t) ==
    (ch[t].pc = "l_check" /\ Steps(t)) =>
        LET cur == list_cache[ch[t].op]
            ttl == IF ch[t].op = "similar" THEN 3 * 24 * 3600 ELSE 90 * 60
        IN IF Young(cur.n, cur.ts, ch[t].now, ttl)
           THEN sent'.how = "hit" /\ sent'.obj = cur.out /\ ch'[t].pc = "idle"
           ELSE sent'.how # "hit" /\ ch'[t].pc = "l_fetch"

\* an answer from a cache composes nothing and asks the Provider nothing, and
\* nothing but a read answers from a cache
HitIsFree ==
    sent'.how = "hit" =>
        /\ composed' = composed /\ fetched' = fetched
        /\ home_cache' = home_cache /\ list_cache' = list_cache
        /\ \E t \in CacheThreads : ch[t].pc \in {"b_check", "h_check", "l_check"} /\ Steps(t)

\* the bytes share the stamp of the object they are stored with: attaching
\* bytes keeps the entry's stamp and object, storing an object drops the bytes
BytesFollowObject ==
    home_cache' # home_cache =>
        \/ /\ home_cache'.n = 2
           /\ home_cache'.raw = NoBytes /\ home_cache'.gz = NoBytes /\ home_cache'.br = NoBytes
        \/ /\ home_cache.n >= 2 /\ home_cache'.n = 5
           /\ home_cache'.ts = home_cache.ts /\ home_cache'.obj = home_cache.obj

\* C20: no cache (home 90 min, trending 90 min, similar 3 days) returns an
\* entry whose age, on the stamp the reader took, is at least its TTL; a read
\* within the TTL returns the stored value without recomposing or contacting
\* the Provider; the bytes of a home entry expire together with its object.
C20_TtlOnRead ==
    [][/\ \A t \in CacheThreads : BytesRead(t) /\ ObjectRead(t) /\ ListRead(t)
       /\ HitIsFree
       /\ BytesFollowObject]_vars

\* /v1/home is answered with the stored bytes half a TTL after they were stored
C20_Witness ==
    /\ sent.op = "home" /\ sent.how = "hit" /\ sent.raw = home_cache.raw
    /\ home_cache.n = 5
    /\ clock = home_cache.ts + home_ttl_s \div 2


\* the four requests of one IP that the rate limit is stated for: the table
\* was not cleared between them and the limit is 3 per second, burst 3
FourHits ==
    /\ rl_env = [RATE_LIMIT_RPS |-> 3, RATE_LIMIT_BURST |-> 3]
    /\ Len(rl_hist) = 4

\* C21 as stated: whenever a single IP sends 4 requests within one second, the
\* 4th is answered 429, for every spacing of the four inside that second.
C21_FourthInASecond_AsStated ==
    (FourHits /\ rl_hist[4].t - rl_hist[1].t < RlUnit) => ~rl_hist[4].ok

\* C21: with RATE_LIMIT_RPS=3 and RATE_LIMIT_BURST=3, whenever a single IP
\* sends 4 requests within less than a third of a second and the first three
\* are admitted, the 4th is answered 429.
C21_FourthInAThird ==
    (/\ FourHits
     /\ (rl_hist[4].t - rl_hist[1].t) * 3 < RlUnit
     /\ \A i \in 1..3 : rl_hist[i].ok)
        => (~rl_hist[4].ok /\ (rl_resp.ip = TrackedIp => rl_resp.code = 429))

\* the 4th of four requests sent at one instant has just been refused
C21_Witness ==
    /\ FourHits
    /\ rl_hist[4].t = rl_hist[1].t
    /\ \A i \in 1..3 : rl_hist[i].ok
    /\ ~rl_hist[4].ok
    /\ rl_resp.ip = TrackedIp /\ rl_resp.code = 429

\* C22: every response sent because the per-IP bucket is empty has status 429
\* and carries Retry-After: 1, for GET as well as OPTIONS requests.
C22_RetryAfterOn429 ==
    rl_resp.code = 429 => rl_resp.retry_after = "1"


\* C23: for an id in neither table, with a Provider key, whenever at least one
\* of the two lookups returns 200 with a body, app_title upserts that base
\* row, schedules a full backfill and answers with that title, whichever
\* lookup completes first and whether or not both have completed when the
\* wait returns; it answers 404 only when neither lookup returns 200 with a body.
C23_FirstUsableLookupWins ==
    (fn_res # NoCall /\ fn_arg.key) =>
        LET usable == {mt \in {"movie", "tv"} : fn_arg.answer[mt] = "ok"}
        IN IF usable # {}
           THEN /\ fn_res.code = 200 /\ fn_res.upserted /\ fn_res.scheduled
                /\ fn_res.kind \in {IF mt = "movie" THEN "movie" ELSE "series" : mt \in usable}
           ELSE fn_res.code = 404

\* C24: the document sent for the first GET /v1/titles/{id} of a series unknown
\* locally, with no Provider request failed so far, has prefetch_season set
\* and prefetch_episodes non-empty, however the handler and the backfill
\* task interleave
C24_FirstGetCarriesPrefetch ==
    \A r \in Requests :
        (title_out[r].sent /\ title_out[r].kind = "series" /\ faults = 0)
            => (title_out[r].prefetch_season /\ title_out[r].prefetch_episodes)

\* C25: whatever the two title lookups return (a body, an empty 200, another
\* status, a transport error or timeout) and however many of them have
\* completed when the wait returns, GET /v1/titles/{id} is answered with 200
\* or 404
C25_ReadPathAnswers ==
    fn_res # NoCall => fn_res.code \in {200, 404}

\* C26: for a known tab and a page >= 1 the browse response is a 200 with
\* page_size 48, the items are the at most 48 rows from offset (page-1)*48 of
\* the ordered result, and has_more tells whether the query that fetches 49
\* returned more than 48 rows; an unknown tab or a page < 1 gives 404
C26_BrowsePagination ==
    fn_res # NoCall =>
        LET offset == (fn_arg.page - 1) * 48
            left == fn_arg.n - offset
        IN IF fn_arg.tab \in BROWSE_TABS /\ fn_arg.page >= 1
           THEN /\ fn_res.code = 200
                /\ fn_res.page_size = 48
                /\ Len(fn_res.items) <= 48
                /\ fn_res.items = [i \in 1..(IF left > 48 THEN 48 ELSE IF left < 0 THEN 0 ELSE left)
                                     |-> offset + i]
                /\ fn_res.has_more <=> left > 48
           ELSE fn_res.code = 404

\* the same for the pages whose offset sqlite3 can bind
C26_BindablePages ==
    fn_arg.page <= LastBindablePage => C26_BrowsePagination

\* C27: every home document has providers equal to Netflix, Prime, Max,
\* Disney+, AppleTV, Paramount in this order, and its series_on has each of
\* them as a key, mapped to the empty list when no series matches
C27_ProvidersAndSeriesOn ==
    fn_res # NoCall =>
        /\ fn_res.providers = <<"Netflix", "Prime", "Max", "Disney+", "AppleTV", "Paramount">>
        /\ \A p \in {"Netflix", "Prime", "Max", "Disney+", "AppleTV", "Paramount"} :
            /\ p \in DOMAIN fn_res.series_on
            /\ (\A r \in fn_arg.series : \A n \in PROVIDER_NEEDLES[p] : ~Like(r.networks, n))
                   => fn_res.series_on[p] = <<>>

\* a home document built from a store in which Netflix has a series and
\* Paramount has none
C27_Witness ==
    /\ fn_res # NoCall
    /\ fn_arg.networks_col
    /\ fn_res.series_on["Netflix"] # <<>>
    /\ fn_res.series_on["Paramount"] = <<>>

\* C28: every card of slider, top10_today, trending_today, series_on,
\* top_rated, genres, browse items and search results has the keys id, kind,
\* name, year, rating, poster, logo, backdrop, with or without description,
\* and no other key, and its kind is movie or series, whether it was built
\* from a store row or from a Provider item
C28_CardShape ==
    fn_res # NoCall =>
        /\ DOMAIN fn_res.card \in
              {{"id", "kind", "name", "year", "rating", "poster", "logo", "backdrop"},
               {"id", "kind", "name", "description", "year", "rating", "poster", "logo",
                "backdrop"}}
        /\ fn_res.card.kind \in {"movie", "series"}

\* a card made from a Provider item and enriched from the store with the
\* translated name and the stored logo
C28_Witness ==
    /\ fn_res # NoCall
    /\ fn_arg.via = "tmdb_local"
    /\ fn_res.card.logo = "/l.png"
    /\ fn_res.card.name = "T"

\* the number of tasks for key k that are queued in the executor or running
TasksFor(k) ==
    Cardinality({i \in 1..Len(queue) : Key(queue[i]) = k}) +
    Cardinality({w \in Workers : wk[w].pc # "idle" /\ Key(wk[w].inp) = k})

\* C29: at any time at most one task per key is queued or running, and its key
\* is in inflight; a call of _schedule_backfill for a key that is in inflight
\* submits nothing and leaves inflight as it is, whatever the recency entry
\* of the key says
C29_OneTaskPerKey ==
    /\ [](\A k \in Keys : TasksFor(k) <= 1 /\ (TasksFor(k) = 1 => k \in backfill_inflight))
    /\ [][\A r \in Requests :
            (ScheduleStep(r) /\ Key(rq[r].inp) \in backfill_inflight)
                => /\ queue' = queue
                   /\ submitted' = submitted
                   /\ backfill_inflight' = backfill_inflight]_vars

\* C29 witness: the task of a key is still queued or running, and a call
\* stamped BACKFILL_TTL or more after its submission has been through the
\* lock: it recorded its stamp and submitted nothing
C29_Witness ==
    \E k \in Keys :
        /\ TasksFor(k) = 1
        /\ Len(submitted[k]) = 1
        /\ backfill_recent[k] - submitted[k][1] >= backfill_ttl_s

\* C30: when some positive season of the series has episode rows,
\* prefetch_season is the lowest such season and prefetch_episodes are the
\* episode numbers of that season, ascending; so after a full backfill that
\* stored the episodes of one season prefetch_episodes is not empty
C30_LowestSeasonWithEpisodes ==
    fn_res # NoCall =>
        LET rows == {y \in EpisodeRows(StoreRead(fn_arg), 2) : y.sn > 0}
            lowest == Least({y.sn : y \in rows})
        IN  rows # {} =>
              /\ fn_res.prefetch_season = lowest
              /\ fn_res.prefetch_episodes = Ascending({y.en : y \in {z \in rows : z.sn = lowest}})
              /\ fn_res.prefetch_episodes # <<>>

\* the answer of the detector to the call fn_arg when need_logos is defined
\* with or without the case of a missing base row
Detects(logos_when_no_base) ==
    LET a == fn_arg
        valid == a.key /\ a.mt \in {"movie", "tv"} /\ a.tid > 0
        has(tbl) == \E r \in a.db : r.tbl = tbl /\ r.mt = a.mt /\ r.tid = a.tid
        tr == \E r \in a.db : /\ r.tbl = "title_translations" /\ r.mt = a.mt /\ r.tid = a.tid
                              /\ r.lang = a.iso639
                              /\ (a.iso3166 = None \/ r.region = a.iso3166)
        nb == ~has("base")
        nl == IF has("base") THEN ~has("logos_json") ELSE logos_when_no_base
        nt == ~tr
        nc == a.full /\ ~has("title_cast")
        nv == a.full /\ ~has("title_videos")
        ntv == a.full /\ a.mt = "tv" /\ (~has("tv_seasons") \/ ~has("tv_episodes"))
    IN  IF ~valid \/ ~(nb \/ nl \/ nt \/ nc \/ nv \/ ntv)
        THEN fn_res = NoMiss
        ELSE /\ fn_res # NoMiss
             /\ fn_res.need_base = nb
             /\ fn_res.need_logos = nl
             /\ fn_res.need_translations = nt
             /\ fn_res.need_cast = nc
             /\ fn_res.need_videos = nv
             /\ fn_res.need_tv = ntv

Held(t) == {m \in Mutexes : mutex[m] = t}

\* waiting at a `with` whose mutex is taken
Blocked(t) == Instr(t).op = "lock" /\ mutex[Instr(t).m] # None

\* C32: no mutex is held across a suspension point (a Provider call, a store
\* query, a sleep), no thread holds two mutexes, a thread waiting for a mutex
\* holds none and the holder of that mutex is not itself waiting, so no cycle
\* of waiting threads (deadlock) is reachable
C32_NoMutexAcrossSuspension ==
    \A t \in LockThreads :
        /\ Cardinality(Held(t)) <= 1
        /\ Instr(t).op \in {"call", "query", "sleep"} => Held(t) = {}
        /\ Instr(t).op = "lock" => Held(t) = {}
        /\ Blocked(t) => /\ mutex[Instr(t).m] \in LockThreads \ {t}
                         /\ ~Blocked(mutex[Instr(t).m])
        /\ ~Running(t) => Held(t) = {}

\* one thread sleeps in acquire for a token while the other is inside the with
\* block of the same bucket, and a thread waits at a with whose mutex is taken
C32_Witness ==
    \E t, u \in LockThreads :
        /\ t # u
        /\ Instr(t).op = "sleep"
        /\ lth[t].prog = "home"
        /\ mutex["fg.lock"] = u

\* the number of addresses the table holds
RlSize(table) == Cardinality({i \in Ips : table[i].has})

\* a request with the limit switched on (rps > 0 and burst > 0)
Limited == rl_env.RATE_LIMIT_RPS > 0 /\ rl_env.RATE_LIMIT_BURST > 0

\* C33: after every request the table holds at most RlCap (20000) entries; a
\* request whose update makes the size exceed that leaves the table empty, and
\* no other request removes an entry
C33_TableCleared ==
    /\ [](RlSize(rl) <= RlCap)
    /\ [][rl_n' > rl_n =>
            IF Limited /\ RlSize(rl) = RlCap /\ ~rl[rl_resp'.ip].has
            THEN RlSize(rl') = 0
            ELSE /\ \A i \in Ips : rl[i].has => rl'[i].has
                 /\ Limited => rl'[rl_resp'.ip].has]_vars

\* the table was full and a request from one more address has emptied it
C33_Witness == Limited /\ rl_n = RlCap + 1 /\ RlSize(rl) = 0

\* the rows of movies and series
BaseRows(db) == {x \in db : x.tbl = "base"}

\* C34: a step of a request handler removes no row, and the only row it adds
\* is the base row of the id app_title has just looked up at the Provider; no
\* step of a request or of a backfill task removes a row of movies or series
C34_RequestsNeverDelete ==
    [][/\ BaseRows(store) \subseteq BaseRows(store')
       /\ rq' # rq =>
            /\ store \subseteq store'
            /\ store' # store =>
                 \E r \in Requests :
                    /\ rq[r].pc = "upsert"
                    /\ rq'[r] # rq[r]
                    /\ BaseRow(rq[r].inp.mt, rq[r].inp.tid) \notin store
                    /\ store' = store \cup {BaseRow(rq[r].inp.mt, rq[r].inp.tid)}]_vars

\* app_title has upserted the base row of an unknown id, and a task has
\* committed rows of its own, the delete of the cast rows among its writes
C34_Witness ==
    /\ BaseRow("movie", 2) \in store \ InitStore
    /\ InitStore \subseteq store
    /\ \E x \in store : x.tbl = "title_cast"
    /\ \E r \in Requests : rq[r].pc = "stamped" /\ rq[r].inp.full

\* C35: a task run on a store that holds the base row of its title leaves the
\* columns of that row other than logos_json (val: title or name, overview,
\* dates, rating, poster, backdrop) as they were
C35_BaseColumnsKept ==
    [][\A x \in udb :
          x.tbl = "base" /\ x.mt = utask.inp.mt /\ x.tid = utask.inp.tid =>
             \E y \in udb' : KeyTuple(y) = KeyTuple(x) /\ y.val = x.val]_vars

\* C36: without a Provider key no token is acquired and no Provider call made,
\* the detector returns none for every title, nothing is scheduled or queued,
\* no task runs, recent and inflight stay empty, the store is never written,
\* no handler waits for the Provider, and a title request is answered 404 or
\* not answered from the Provider at all
C36_LocalWithoutKey ==
    ~env.TMDB_API_KEY =>
        /\ acq_log = {}
        /\ http = IdleHttp
        /\ store = InitStore
        /\ queue = <<>>
        /\ backfill_inflight = {}
        /\ \A k \in Keys : backfill_recent[k] = 0 /\ submitted[k] = <<>>
        /\ \A w \in Workers : wk[w] = IdleWorker
        /\ \A r \in Requests : rq[r] = IdleReq /\ title_out[r] \in {NoDetail, NotFound}
        /\ faults = 0

\* without a key, a card has been enriched from the store alone and the title
\* request for an id of neither table has been answered 404
C36_Witness ==
    /\ ~env.TMDB_API_KEY
    /\ served = MaxServed
    /\ clock > TickS
    /\ \E r \in Requests : title_out[r] = NotFound

\* what a caller that read the time at `now` adds to the bucket
Credit(now) ==
    IF now > tmdb_fg_limiter.t
    THEN ((now - tmdb_fg_limiter.t) * tmdb_fg_limiter.rate) \div Unit
    ELSE 0

C38_FailureCached ==
    [][\A t \in CacheThreads :
          LET op == ch[t].op
              cur == list_cache[op]
          IN  /\ ch[t].pc = "l_store" /\ ch'[t] # ch[t] =>
                    /\ list_cache'[op] = [n |-> 2, ts |-> ch[t].now, out |-> ch[t].obj]
                    /\ sent' = ServedObj(op, "miss", ch[t].obj)
              /\ (/\ ch[t].pc = "l_check" /\ ch'[t] # ch[t]
                  /\ cur.n = 2 /\ cur.out = 0
                  /\ ch[t].now - cur.ts < (IF op = "similar" THEN 3 * 24 * 3600 ELSE 90 * 60)) =>
                    /\ sent' = ServedObj(op, "hit", 0)
                    /\ ch'[t] = IdleCacheThread
                    /\ fetched' = fetched
                    /\ list_cache' = list_cache]_vars

\* one fetch failed; its empty list is in the cache, and a call made later
\* within the TTL has just returned it
C38_Witness ==
    \E c \in ListCaches :
        /\ list_cache[c].n = 2 /\ list_cache[c].out = 0
        /\ fetched = 1
        /\ clock > list_cache[c].ts
        /\ sent = ServedObj(c, "hit", 0)

\* the threads that have missed the cache of op and are fetching or composing
\* its value, or are about to store it
Filling(op) ==
    {t \in CacheThreads :
        ch[t].op = op /\ ch[t].pc \in {"l_fetch", "l_store", "h_compose", "h_store"}}

\* C39: of the requests that miss a cache key together, one only fetches from
\* the Provider or composes the page: no two threads are at work on the value
\* of one key at once
C39_OneFillPerKey ==
    \A op \in ListCaches \cup {"home", "search"} : Cardinality(Filling(op)) <= 1

\* every call of the task was answered 200 with a body the code accepts: the
\* first images call gave logos, and no INSERT of the cast raised
Answered200(rs) ==
    /\ rs.base.ok /\ rs.season.ok /\ rs.videos.ok /\ rs.credits.ok /\ rs.translations.ok
    /\ rs.logos1 # None
    /\ \A i, j \in 1..Len(rs.credits.cast) :
          rs.credits.cast[i].credit_id = rs.credits.cast[j].credit_id => i = j

\* C40: once a task has run to its end with every Provider call answered 200,
\* the detector finds nothing missing for the task's (kind, id, lang, region,
\* full)
C40_BackfillConverges ==
    (uapplied >= 1 /\ Answered200(utask.rs)) => ~MissingIn(udb, utask.inp).any

====
